---- MODULE Spec2Model ----
(***************************************************************************)
(* redoxer: the ephemeral-VM execution harness.                            *)
(*                                                                         *)
(*   host harness   src/src/exec.rs      main, inner, apply_qemu_args, base*)
(*   guest daemon   src/daemon/src/main.rs   inner, handle, main           *)
(*                                                                         *)
(* Specifications                                                          *)
(*   Spec        host harness + emulator + guest daemon + child, end to end*)
(*   SpecDaemon  the guest daemon booted on an arbitrary /etc/redoxerd     *)
(*   SpecMerge   apply_qemu_args on bounded (default, args_opt) inputs     *)
(*   SpecBase    base() called repeatedly against one cache directory      *)
(*   SpecResize  shrink_disk / expand_disk on a bounded block allocator    *)
(*   SpecWriter  write_redoxerd_config and the daemon reading it back      *)
(*   SpecParse   the -f / -a options of RedoxerExecConfig::new             *)
(*   SpecDaemonFair  SpecDaemon with the daemon scheduled and the timer    *)
(*               firing                                                    *)
(*   SpecMergeFair   SpecMerge with the merger's steps taken               *)
(*   SpecBase2   two invocations running base() on one cache directory     *)
(*   SpecMount   RedoxFs::mount polling beside its worker thread           *)
(*   SpecOptions the option loop of RedoxerExecConfig::new, token by token *)
(***************************************************************************)
EXTENDS Integers, Sequences, FiniteSets, TLC

VARIABLES
    \* ---- host harness: exec.rs main / inner
    hpc,          \* position of the harness
    arguments,    \* config.arguments, the command to run in the guest
    code,         \* inner's local `code` (-1 until the emulator status is mapped)
    hexit,        \* exit code of the harness process (-1 while it runs)
    hcause,       \* why the harness exited: none | usage | tool | error | panic | result
    fuse,         \* config.fuse: mountable (redoxfs) backend, else tar backend
    artifacts,    \* config.artifacts is not empty
    copy_in,      \* config.folders is not empty
    tempdir,      \* the temporary workspace: none | open | closed (removed)
    mounted,      \* the run image is mounted on tempdir/redoxer
    copied_in,    \* every folder was copied into the image
    copied_out,   \* the artifact folders were copied out of the image
    failed_step,  \* the image-construction subprocess that exited non-zero, or none
    \* ---- emulator process
    emuState,     \* off | running | exited
    emuStatus,    \* status.code(): an exit status, or NoCode (ended by a signal)
    emuCause,     \* none | port (isa-debug-exit) | other
    \* ---- guest: daemon, child, pseudo-terminal, event queue, ports
    config,       \* lines of /etc/redoxerd
    dpc,          \* position of the daemon
    derr,         \* the error inner() returns: none | Config | Io | Spawn | Exit
    status,       \* the ExitStatus handle() returned (NoStatus before)
    observedBy,   \* which call produced `status`: none | try_wait | wait
    killIssued,   \* process.kill() was called
    closedSeen,   \* a zero-length read of the terminal master was seen
    child,        \* none | running | exited | reaped
    childStatus,  \* the child's wait status (NoStatus while it runs)
    slaveOpen,    \* the child still holds the terminal's slave side
    written,      \* number of bytes the child has written to its terminal
    ptyBuf,       \* bytes written by the child and not yet read from the master
    consumed,     \* every byte read from the master so far, in order
    stdout,       \* bytes the daemon wrote to fd 1
    debugcon,     \* bytes the daemon wrote to port 0xe9
    stderr,       \* the error lines main() wrote to the error stream, by error kind
    ports,        \* writes to the signal ports, in order: <<port, value>>
    evPty,        \* a terminal-master event is pending in the event queue
    evTimer,      \* a timer event is pending in the event queue
    timerArmed,   \* the timer has been (re)scheduled and has not fired yet
    evOther,      \* the queue delivered an event that is neither Pty nor Timer
    \* ---- argument merger: exec.rs apply_qemu_args
    mpc, default, args_opt, i, merged_args,
    \* ---- base image cache: exec.rs base
    bpc,          \* position inside base(), "idle" between calls
    files,        \* the cache directory: path -> what the file holds, or Absent
    config_str,   \* the manifest text base() was called with
    base_fuse,    \* base()'s parameter `fuse`
    calls,        \* number of calls of base() so far
    built,        \* the current call entered the build (exec.rs:183)
    cleared,      \* the current call deleted a stale image or record (exec.rs:177-179)
    last,         \* outcome of the latest call that returned
    prev,         \* outcome of the call that returned before it
    other,        \* base()'s locals in a second invocation, while it is not running
    \* ---- disk sizer: redoxfs.rs shrink_disk / expand_disk / resize
    rpc,          \* position inside the operation, "idle" between operations
    rop,          \* the latest operation: none | shrink | expand | write
    rresult,      \* how it ended: none | ok | err | panic
    disk_len,     \* length of the backing file, in bytes
    fs_block,     \* fs.block: first block of the filesystem in the file
    header_size,  \* fs.header.size(), in bytes
    alloc_log,    \* the allocation log on disk: entries (index, count)
    allocator,    \* the open filesystem's allocator: the set of free blocks
    live,         \* blocks that hold live data
    old_size,     \* resize's local old_size
    new_size,     \* resize's local new_size
    index,        \* resize's loop variable
    desired_size, \* expand_disk's parameter
    pre,          \* file length, header size and log when the operation started
    ops,          \* number of operations so far
    trip,         \* none | expanded | shrunk: progress of an expand-shrink round trip
    before,       \* file length before the expansion of the round trip
    newly_written, \* blocks written since that expansion
    \* ---- guest configuration file: writer.rs write_redoxerd_config, daemon inner
    wpc,          \* call | written | read | err
    w_arguments,  \* config.arguments, each argument a sequence of characters
    folders,      \* config.folders: mount-point name -> host folder, if mapped
    redoxerd_config, \* the text of etc/redoxerd
    config_lines, \* what config.lines() yields in the daemon
    \* ---- folder options: exec.rs RedoxerExecConfig::new, parse_folder
    ppc,          \* parse | finish | done | usage
    cli,          \* the options not yet consumed: <<flag, mapping>> pairs
    config_folders,   \* config.folders: mount-point name -> host folder
    config_artifacts, \* config.artifacts: mount-point name -> host folder
    accepted,     \* the mappings parse_folder accepted, in order
    perr,         \* why new() returned Err: none | format | unique
    \* ---- mounting an image: redoxfs.rs RedoxFs::mount and its worker thread
    mnt_pc,       \* off | idle | mounted | open | while | try_recv | sleep | returned
    mnt_res,      \* what mount() returned: none | Ok | the error
    worker,       \* the spawned thread: none | starting | serving | returned | gone
    wres,         \* what redoxfs::mount returned in the thread: none | Ok | Err
    chan,         \* the message in the channel: empty | Ok | Err
    dir_mounted,  \* the directory is in the table of mounts
    polls,        \* times the loop has slept, counted up to MaxPolls
    \* ---- the command line of `redoxer exec`: exec.rs RedoxerExecConfig::new
    xpc,          \* off | loop | finish | Ok | Err | panic
    x_line,       \* the tokens after `redoxer exec`, as given
    x_args,       \* the tokens the iterator has not yielded yet
    matching,     \* options are still matched
    new_config    \* the configuration under construction

hvars == <<hpc, arguments, code, hexit, hcause, fuse, artifacts, copy_in, tempdir,
           mounted, copied_in, copied_out, failed_step>>
evars == <<emuState, emuStatus, emuCause>>
gvars == <<config, dpc, derr, status, observedBy, killIssued, closedSeen, child,
           childStatus, slaveOpen, written, ptyBuf, consumed, stdout, debugcon, stderr,
           ports, evPty, evTimer, timerArmed, evOther>>
mvars == <<mpc, default, args_opt, i, merged_args>>
bvars == <<bpc, files, config_str, base_fuse, calls, built, cleared, last, prev,
           other>>
rvars == <<rpc, rop, rresult, disk_len, fs_block, header_size, alloc_log, allocator,
           live, old_size, new_size, index, desired_size, pre, ops, trip, before,
           newly_written>>
\* the components modelled as operations applied to bounded inputs
wvars == <<wpc, w_arguments, folders, redoxerd_config, config_lines>>
pvars == <<ppc, cli, config_folders, config_artifacts, accepted, perr>>
nvars == <<mnt_pc, mnt_res, worker, wres, chan, dir_mounted, polls>>
xvars == <<xpc, x_line, x_args, matching, new_config>>
fvars == <<rvars, wvars, pvars, nvars, xvars>>
vars  == <<hvars, evars, gvars, mvars, bvars, fvars>>

(***************************************************************************)
(* Bounds                                                                  *)
(***************************************************************************)
MaxOut == 2          \* bytes the child writes to its terminal
MaxDefault == 4      \* tokens in the default argument list
MaxUser == 2         \* tokens in the user's argument list
MaxCalls == 3        \* calls of base() against one cache directory

(***************************************************************************)
(* Values                                                                  *)
(***************************************************************************)
NoCode   == 0 - 1    \* status.code() == None / no exit code yet
NoStatus == 0 - 1    \* no ExitStatus yet

\* Wait statuses of the child: exit(c) is c * 256, death by signal s is s.
Exited(c)   == c * 256
Signaled(s) == s
SIGKILL     == 9

\* success() taken from the low byte of the wait status only
success_low_byte(st) == st % 256 = 0

\* ExitStatus::success(), daemon main.rs:202
success(st) == st = 0

\* The signal ports, daemon main.rs:213-214,223
PORT_SHUTDOWN == 1540     \* 0x604
PORT_EXIT     == 1281     \* 0x501
HALT_REQUEST  == 8192     \* 0x2000
\* the success value rounded up instead of down
success_value_rounded_up == (51 + 1) \div 2
success_value == 51 \div 2
\* the failure value rounded up instead of down
failure_value_rounded_up == (53 + 1) \div 2
failure_value == 53 \div 2

\* isa-debug-exit: a write of val to the exit port ends the emulator process with
\* status (val << 1) | 1.
isa_debug_exit(val) == (2 * val + 1) % 256

(***************************************************************************)
(* Guest side: the daemon (src/daemon/src/main.rs), its child, the         *)
(* pseudo-terminal and the event queue.                                    *)
(***************************************************************************)
dctl   == <<dpc, derr, status, observedBy, killIssued, closedSeen>>
cvars  == <<child, childStatus, slaveOpen, written>>
iovars == <<ptyBuf, consumed, stdout, debugcon, stderr>>
qvars  == <<evPty, evTimer, timerArmed, evOther>>

GuestRuns   == emuState = "running"
NotHost     == UNCHANGED <<hvars, mvars, bvars, fvars>>
GuestOnly   == UNCHANGED <<hvars, evars, mvars, bvars, fvars>>

\* inner() returns Err(kind): main() takes its Err arm.
Fail(kind) == dpc' = "main_err" /\ derr' = kind

\* init starts the daemon once the guest has booted.
DaemonStart ==
    /\ GuestRuns /\ dpc = "off"
    /\ dpc' = "inner"
    /\ UNCHANGED <<derr, status, observedBy, killIssued, closedSeen>>
    /\ UNCHANGED <<config, cvars, iovars, qvars, ports>>
    /\ GuestOnly

\* main.rs:153-177: port rights, read /etc/redoxerd, open the pty and the timer,
\* subscribe both to the event queue, open the slave ends.  Each step may fail.
inner_setup ==
    /\ GuestRuns /\ dpc = "inner"
    /\ \/ dpc' = "name" /\ UNCHANGED derr
       \/ Fail("Io")
    /\ UNCHANGED <<status, observedBy, killIssued, closedSeen>>
    /\ UNCHANGED <<config, cvars, iovars, qvars, ports>>
    /\ GuestOnly

\* the program name is taken without the check for a missing first line
inner_name_unchecked ==
    /\ GuestRuns /\ dpc = "name"
    /\ dpc' = "spawn"
    /\ UNCHANGED <<derr, status, observedBy, killIssued, closedSeen>>
    /\ UNCHANGED <<config, cvars, iovars, qvars, ports>>
    /\ UNCHANGED <<hvars, evars, mvars, bvars, fvars>>

\* main.rs:179-181: the first line of the configuration is the program name.
inner_name ==
    /\ GuestRuns /\ dpc = "name"
    /\ IF Len(config) = 0
          THEN Fail("Config")
          ELSE dpc' = "spawn" /\ UNCHANGED derr
    /\ UNCHANGED <<status, observedBy, killIssued, closedSeen>>
    /\ UNCHANGED <<config, cvars, iovars, qvars, ports>>
    /\ GuestOnly

\* main.rs:182-199: build the command and spawn it on the slave ends.
inner_spawn ==
    /\ GuestRuns /\ dpc = "spawn"
    /\ \/ /\ dpc' = "init_pty" /\ UNCHANGED derr
          /\ child' = "running" /\ slaveOpen' = TRUE
          /\ UNCHANGED <<childStatus, written>>
       \/ Fail("Spawn") /\ UNCHANGED cvars
    /\ UNCHANGED <<status, observedBy, killIssued, closedSeen>>
    /\ UNCHANGED <<config, iovars, qvars, ports>>
    /\ GuestOnly

\* the loop goes from a handled event straight to the next blocking wait
events_loop_head_skips_check == "next_event"

\* main.rs:104-105, 117-120: an event handled with Ok(true) (and the two initial
\* calls at line 103) lead to the head of the 'events loop, which is the
\* non-blocking process.try_wait()
events_loop_head == "try_wait"

\* EAGAIN is taken for the end of the terminal
would_block_as_closure(pc) == "kill"

\* main.rs:78: Err(EAGAIN) => return Ok(true): at line 103 the timer is handled
\* next, at line 117 the loop continues
would_block(pc) == IF pc = "init_pty" THEN "init_timer" ELSE events_loop_head

\* main.rs:83: syscall::write(1, &packet[1..count])
forwarded(packet, count) == SubSeq(packet, 2, count)
\* main.rs:85-88: for i in 1..count { Pio::<u8>::new(0xe9).write(packet[i]) }
mirrored(packet, count) == [k \in 1..(count - 1) |-> packet[k + 1]]

\* main.rs:71-90: one iteration of the read loop of handle_event(EventData::Pty),
\* called at line 103 (dpc = "init_pty") and at line 117 (dpc = "ev_pty").
handle_event_Pty ==
    /\ GuestRuns /\ dpc \in {"init_pty", "ev_pty"}
    /\ \/ \* Ok(count), count > 0: forward the packet and read again
          \E count \in 1..Len(ptyBuf) :
             LET packet == SubSeq(ptyBuf, 1, count) IN
             /\ ptyBuf' = SubSeq(ptyBuf, count + 1, Len(ptyBuf))
             /\ consumed' = consumed \o packet
             /\ stdout' = stdout \o forwarded(packet, count)
             /\ debugcon' = debugcon \o mirrored(packet, count)
             /\ UNCHANGED <<dpc, derr, closedSeen, stderr>>
       \/ \* Ok(0): return Ok(false)
          /\ Len(ptyBuf) = 0 /\ ~slaveOpen
          /\ closedSeen' = TRUE /\ dpc' = "kill"
          /\ UNCHANGED <<derr, iovars>>
       \/ \* Err(EAGAIN): return Ok(true)
          /\ Len(ptyBuf) = 0
          /\ dpc' = would_block(dpc)
          /\ UNCHANGED <<derr, closedSeen, iovars>>
       \/ \* Err(err) of the read
          /\ Fail("Io")
          /\ UNCHANGED <<closedSeen, iovars>>
       \/ \* Ok(count), then Err(err) of the write to stdout
          \E count \in 1..Len(ptyBuf) :
             /\ ptyBuf' = SubSeq(ptyBuf, count + 1, Len(ptyBuf))
             /\ consumed' = consumed \o SubSeq(ptyBuf, 1, count)
             /\ Fail("Io")
             /\ UNCHANGED <<closedSeen, stdout, debugcon, stderr>>
    /\ UNCHANGED <<status, observedBy, killIssued>>
    /\ UNCHANGED <<config, cvars, qvars, ports>>
    /\ GuestOnly

\* the new time is not written back: the timer stays as it was
rearm_not_written(armed) == armed

\* main.rs:95-96: timespec.tv_sec += 1 and the write to timeout_fd schedule the
\* timer again
rearm(armed) == TRUE

\* main.rs:91-99: handle_event(EventData::Timer): read the timer, add a second,
\* write it back.
handle_event_Timer ==
    /\ GuestRuns /\ dpc \in {"init_timer", "ev_timer"}
    /\ \/ /\ timerArmed' = rearm(timerArmed)
          /\ dpc' = events_loop_head /\ UNCHANGED derr
       \/ Fail("Io") /\ UNCHANGED timerArmed
    /\ UNCHANGED <<status, observedBy, killIssued, closedSeen>>
    /\ UNCHANGED <<config, cvars, iovars, evPty, evTimer, evOther, ports>>
    /\ GuestOnly

\* main.rs:105-114: process.try_wait() at the head of the 'events loop.
try_wait ==
    /\ GuestRuns /\ dpc = "try_wait"
    /\ \/ \* Ok(Some(status)): return Ok(status)
          /\ child = "exited"
          /\ status' = childStatus /\ observedBy' = "try_wait"
          /\ child' = "reaped"
          /\ dpc' = "status"
          /\ UNCHANGED <<derr, childStatus, slaveOpen, written>>
       \/ \* Ok(None) or Err(WouldBlock)
          /\ child = "running"
          /\ dpc' = "next_event"
          /\ UNCHANGED <<derr, status, observedBy, cvars>>
       \/ \* Err(err)
          /\ Fail("Io")
          /\ UNCHANGED <<status, observedBy, cvars>>
    /\ UNCHANGED <<killIssued, closedSeen>>
    /\ UNCHANGED <<config, iovars, qvars, ports>>
    /\ GuestOnly

\* main.rs:116: event_queue.next_event()? blocks until an event is pending.
\* EventData (main.rs:56-61) has the variants Pty and Timer only, and handle has
\* an arm for each; an identifier that is neither is decoded inside next_event by
\* the code user_data! generates, which either makes next_event return an
\* io::Error or panics, and a panic ends the daemon before main writes a port.
next_event ==
    /\ GuestRuns /\ dpc = "next_event"
    /\ \/ /\ evPty /\ evPty' = FALSE /\ dpc' = "ev_pty"
          /\ UNCHANGED <<derr, evTimer, evOther>>
       \/ /\ evTimer /\ evTimer' = FALSE /\ dpc' = "ev_timer"
          /\ UNCHANGED <<derr, evPty, evOther>>
       \/ Fail("Io") /\ UNCHANGED <<evPty, evTimer, evOther>>
       \/ /\ evOther' = TRUE
          /\ \/ Fail("Io")
             \/ dpc' = "panicked" /\ UNCHANGED derr
          /\ UNCHANGED <<evPty, evTimer>>
    /\ UNCHANGED <<status, observedBy, killIssued, closedSeen>>
    /\ UNCHANGED <<config, cvars, iovars, timerArmed, ports>>
    /\ GuestOnly

\* the loop is left without the kill
kill_skipped ==
    /\ GuestRuns /\ dpc = "kill"
    /\ dpc' = "wait"
    /\ UNCHANGED <<derr, status, observedBy, killIssued, closedSeen>>
    /\ UNCHANGED <<config, cvars, iovars, qvars, ports>>
    /\ UNCHANGED <<hvars, evars, mvars, bvars, fvars>>

\* main.rs:123: let _ = process.kill()
kill ==
    /\ GuestRuns /\ dpc = "kill"
    /\ killIssued' = TRUE
    /\ dpc' = "wait"
    /\ IF child = "running"
          THEN /\ child' = "exited"
               /\ childStatus' = Signaled(SIGKILL)
               /\ slaveOpen' = FALSE
               /\ UNCHANGED written
          ELSE UNCHANGED cvars
    /\ UNCHANGED <<derr, status, observedBy, closedSeen>>
    /\ UNCHANGED <<config, iovars, qvars, ports>>
    /\ GuestOnly

\* main.rs:124: process.wait() blocks until the child has exited.
wait ==
    /\ GuestRuns /\ dpc = "wait"
    /\ \/ /\ child = "exited"
          /\ status' = childStatus /\ observedBy' = "wait"
          /\ child' = "reaped"
          /\ dpc' = "status"
          /\ UNCHANGED <<derr, childStatus, slaveOpen, written>>
       \/ Fail("Io") /\ UNCHANGED <<status, observedBy, cvars>>
    /\ UNCHANGED <<killIssued, closedSeen>>
    /\ UNCHANGED <<config, iovars, qvars, ports>>
    /\ GuestOnly

\* main.rs:202-206: Ok(()) on success, otherwise "{name} failed with {status}".
inner_status ==
    /\ GuestRuns /\ dpc = "status"
    /\ IF success(status)
          THEN dpc' = "main_ok" /\ UNCHANGED derr
          ELSE Fail("Exit")
    /\ UNCHANGED <<status, observedBy, killIssued, closedSeen>>
    /\ UNCHANGED <<config, cvars, iovars, qvars, ports>>
    /\ GuestOnly

\* A write to the exit port ends the emulator process at once.
DebugExit(val) ==
    /\ emuState' = "exited"
    /\ emuStatus' = isa_debug_exit(val)
    /\ emuCause' = "port"

\* main.rs:213: Pio::<u16>::new(0x604).write(0x2000)
main_ok_shutdown ==
    /\ GuestRuns /\ dpc = "main_ok"
    /\ ports' = Append(ports, <<PORT_SHUTDOWN, HALT_REQUEST>>)
    /\ dpc' = "main_ok2"
    /\ UNCHANGED <<derr, status, observedBy, killIssued, closedSeen>>
    /\ UNCHANGED <<config, cvars, iovars, qvars>>
    /\ GuestOnly

\* main.rs:214: Pio::<u8>::new(0x501).write(51 / 2)
main_ok_exit ==
    /\ GuestRuns /\ dpc = "main_ok2"
    /\ ports' = Append(ports, <<PORT_EXIT, success_value>>)
    /\ DebugExit(success_value)
    /\ dpc' = "done"
    /\ UNCHANGED <<derr, status, observedBy, killIssued, closedSeen>>
    /\ UNCHANGED <<config, cvars, iovars, qvars>>
    /\ NotHost

\* the error line is not printed
main_err_eprintln_silent ==
    /\ GuestRuns /\ dpc = "main_err" /\ stderr = <<>>
    /\ stderr' = <<"">>
    /\ UNCHANGED <<ptyBuf, consumed, stdout, debugcon>>
    /\ UNCHANGED <<config, dctl, cvars, qvars, ports>>
    /\ UNCHANGED <<hvars, evars, mvars, bvars, fvars>>

\* main.rs:216-220: eprintln!("redoxerd: {:#}", err), then sleep 100 ms
main_err_eprintln ==
    /\ GuestRuns /\ dpc = "main_err" /\ stderr = <<>>
    /\ stderr' = <<derr>>
    /\ UNCHANGED <<ptyBuf, consumed, stdout, debugcon>>
    /\ UNCHANGED <<config, dctl, cvars, qvars, ports>>
    /\ GuestOnly

\* main.rs:222-223: Pio::<u8>::new(0x501).write(53 / 2); nothing is written to
\* the shutdown port on this path
main_err ==
    /\ GuestRuns /\ dpc = "main_err" /\ stderr # <<>>
    /\ ports' = Append(ports, <<PORT_EXIT, failure_value>>)
    /\ DebugExit(failure_value)
    /\ dpc' = "done"
    /\ UNCHANGED <<derr, status, observedBy, killIssued, closedSeen>>
    /\ UNCHANGED <<config, cvars, iovars, qvars>>
    /\ NotHost

(***************************************************************************)
(* Environment of the daemon: the child program, the timer.                *)
(***************************************************************************)
\* The child writes its next byte to the terminal; byte k of its output is k.
ChildWrite ==
    /\ GuestRuns /\ child = "running" /\ slaveOpen
    /\ written < MaxOut
    /\ written' = written + 1
    /\ ptyBuf' = Append(ptyBuf, written + 1)
    /\ evPty' = TRUE
    /\ UNCHANGED <<child, childStatus, slaveOpen, consumed, stdout, debugcon, stderr>>
    /\ UNCHANGED <<config, dctl, evTimer, timerArmed, evOther, ports>>
    /\ GuestOnly

\* The last holder of the terminal's slave side closes it: the child, which
\* keeps running, or a descendant that outlived it.
ChildCloseTty ==
    /\ GuestRuns /\ child \in {"running", "exited", "reaped"} /\ slaveOpen
    /\ slaveOpen' = FALSE
    /\ evPty' = TRUE
    /\ UNCHANGED <<child, childStatus, written>>
    /\ UNCHANGED <<config, dctl, iovars, evTimer, timerArmed, evOther, ports>>
    /\ GuestOnly

\* The child exits by itself with exit code c.  The slave side closes with it,
\* unless a descendant of the child still holds it.
ChildExit ==
    /\ GuestRuns /\ child = "running"
    /\ \E c \in {0, 1} : childStatus' = Exited(c)
    /\ child' = "exited"
    /\ \/ slaveOpen' = FALSE /\ evPty' = TRUE
       \/ slaveOpen /\ UNCHANGED <<slaveOpen, evPty>>
    /\ UNCHANGED written
    /\ UNCHANGED <<config, dctl, iovars, evTimer, timerArmed, evOther, ports>>
    /\ GuestOnly

\* The armed timer expires.
TimerFire ==
    /\ GuestRuns /\ timerArmed
    /\ timerArmed' = FALSE
    /\ evTimer' = TRUE
    /\ UNCHANGED <<evPty, evOther>>
    /\ UNCHANGED <<config, dctl, cvars, iovars, ports>>
    /\ GuestOnly

NextGuest ==
    \/ DaemonStart \/ inner_setup \/ inner_name \/ inner_spawn
    \/ handle_event_Pty \/ handle_event_Timer \/ try_wait \/ next_event
    \/ kill \/ wait \/ inner_status
    \/ main_ok_shutdown \/ main_ok_exit \/ main_err_eprintln \/ main_err
    \/ ChildWrite \/ ChildCloseTty \/ ChildExit \/ TimerFire

\* Contents of /etc/redoxerd: no line, a program name, a program name and an argument.
Configs == {<<>>, <<"prog">>, <<"prog", "arg">>}

GuestOff ==
    /\ dpc = "off" /\ derr = "none" /\ status = NoStatus /\ observedBy = "none"
    /\ killIssued = FALSE /\ closedSeen = FALSE
    /\ child = "none" /\ childStatus = NoStatus /\ slaveOpen = FALSE /\ written = 0
    /\ ptyBuf = <<>> /\ consumed = <<>> /\ stdout = <<>> /\ debugcon = <<>>
    /\ stderr = <<>>
    /\ ports = <<>>
    /\ evPty = FALSE /\ evTimer = FALSE /\ timerArmed = FALSE /\ evOther = FALSE

MergeIdle == mpc = "idle" /\ default = <<>> /\ args_opt = [some |-> FALSE, v |-> <<>>] /\ i = 0 /\ merged_args = <<>>

(***************************************************************************)
(* Base image cache: base() (src/src/exec.rs:158-237).                     *)
(* The cache directory holds, for one configuration name, name.bin,        *)
(* name.tar, name.toml, the build directory name/ and the .partial files.  *)
(* An image or archive is described by the manifest it was produced from,  *)
(* "junk" is an incomplete one.                                            *)
(***************************************************************************)
Absent    == "absent"
Manifests == {"m1", "m2"}
Paths     == {"bin", "tar", "toml", "dir", "bin.partial", "tar.partial"}

\* exec.rs:164-168 and 191
ext(f)          == IF f THEN "bin" ELSE "tar"
base_file(f)    == ext(f)
base_tar        == "tar"
base_toml       == "toml"
base_dir        == "dir"
\* the build writes straight to the final path
base_partial_is_final(f) == base_file(f)

\* exec.rs:191: name.ext.partial
base_partial(f) == IF f THEN "bin.partial" ELSE "tar.partial"

is_file(p) == files[p] # Absent

NoCall == [ok |-> FALSE, manifest |-> "none", fuse |-> FALSE, path |-> "none",
           built |-> FALSE, cleared |-> FALSE, files |-> [p \in Paths |-> Absent]]

\* base()'s locals in an invocation that has not called it yet
NoLocals == [bpc |-> "idle", config_str |-> "none", base_fuse |-> FALSE,
             built |-> FALSE, cleared |-> FALSE]

BaseIdle ==
    /\ bpc = "idle" /\ files = [p \in Paths |-> Absent] /\ config_str = "none"
    /\ base_fuse = FALSE /\ calls = 0 /\ built = FALSE /\ cleared = FALSE
    /\ last = NoCall /\ prev = NoCall /\ other = NoLocals

\* The disk sizer at rest, on no image.
NoImage == [disk_len |-> 0, header_size |-> 0, alloc_log |-> <<>>]

ResizeIdle ==
    /\ rpc = "off" /\ rop = "none" /\ rresult = "none"
    /\ disk_len = 0 /\ fs_block = 0 /\ header_size = 0 /\ alloc_log = <<>>
    /\ allocator = {} /\ live = {} /\ old_size = 0 /\ new_size = 0 /\ index = 0
    /\ desired_size = 0 /\ pre = NoImage /\ ops = 0 /\ trip = "none"
    /\ before = 0 /\ newly_written = 0

NoFolder == [some |-> FALSE, v |-> <<>>]

WriterIdle ==
    /\ wpc = "off" /\ w_arguments = <<>>
    /\ folders = [n \in {"root", "data"} |-> NoFolder]
    /\ redoxerd_config = <<>> /\ config_lines = <<>>

ParseIdle ==
    /\ ppc = "off" /\ cli = <<>> /\ config_folders = <<>> /\ config_artifacts = <<>>
    /\ accepted = <<>> /\ perr = "none"

MountIdle ==
    /\ mnt_pc = "off" /\ mnt_res = "none" /\ worker = "none" /\ wres = "none"
    /\ chan = "empty" /\ dir_mounted = FALSE /\ polls = 0

\* exec.rs:534-543: the configuration before any option is applied
DefaultConfig ==
    [folders |-> <<>>, artifacts |-> <<>>, config_name |-> <<"base">>,
     config_toml |-> "BASE_TOML", output |-> NoFolder, arguments |-> <<>>]

OptionsIdle ==
    /\ xpc = "off" /\ x_line = <<>> /\ x_args = <<>> /\ matching = TRUE
    /\ new_config = DefaultConfig

FunctionsIdle == ResizeIdle /\ WriterIdle /\ ParseIdle /\ MountIdle /\ OptionsIdle

(***************************************************************************)
(* The guest configuration file: write_redoxerd_config (src/src/writer.rs) *)
(* on the host, config.lines() in the daemon (src/daemon/src/main.rs).     *)
(* A string is the sequence of its characters.  The host's working         *)
(* directory is /w; it holds the folders p, p2 and q.                      *)
(***************************************************************************)
NL   == "\n"
CR   == "\r"
cwd  == <<"/", "w">>
ROOT == <<"/", "r", "o", "o", "t">>

\* str::starts_with
starts_with(s, pat) == Len(pat) <= Len(s) /\ SubSeq(s, 1, Len(pat)) = pat

\* str::replace: every occurrence, left to right
RECURSIVE replace(_, _, _)
replace(s, from, to) ==
    IF Len(s) = 0 THEN <<>>
    ELSE IF starts_with(s, from)
            THEN to \o replace(SubSeq(s, Len(from) + 1, Len(s)), from, to)
            ELSE <<Head(s)>> \o replace(Tail(s), from, to)

\* the folder path is compared as it was given
canonicalize_as_given(folder) == folder

\* fs::canonicalize of an existing folder, given as /abs, ./rel or rel
canonicalize(folder) ==
    IF starts_with(folder, <<"/">>) THEN folder
    ELSE IF starts_with(folder, <<".", "/">>) THEN cwd \o Tail(folder)
    ELSE cwd \o <<"/">> \o folder

\* writer.rs:13-34: the line written for one argument, without its newline
config_line(arg, root_dir) ==
    IF root_dir.some /\ starts_with(arg, canonicalize(root_dir.v))
       THEN replace(arg, canonicalize(root_dir.v), ROOT)
       ELSE arg

\* writer.rs:11-35: the text of etc/redoxerd
RECURSIVE write_redoxerd_config(_, _)
write_redoxerd_config(args, root_dir) ==
    IF args = <<>> THEN <<>>
    ELSE config_line(Head(args), root_dir) \o <<NL>>
            \o write_redoxerd_config(Tail(args), root_dir)

\* str::lines: a line ends at a newline, a carriage return in front of that
\* newline is dropped, the last line needs no newline
strip_cr(line) ==
    IF Len(line) > 0 /\ line[Len(line)] = CR THEN SubSeq(line, 1, Len(line) - 1) ELSE line
RECURSIVE lines_from(_, _)
lines_from(text, cur) ==
    IF text = <<>> THEN (IF cur = <<>> THEN <<>> ELSE <<cur>>)
    ELSE IF Head(text) = NL
            THEN <<strip_cr(cur)>> \o lines_from(Tail(text), <<>>)
            ELSE lines_from(Tail(text), Append(cur, Head(text)))
lines(text) == lines_from(text, <<>>)

\* The guest booted on an image holding any configuration file; the host is
\* blocked in command.status() (exec.rs:405).
InitDaemon ==
    /\ hpc = "status" /\ arguments = <<>> /\ code = NoCode /\ hexit = NoCode
    /\ hcause = "none" /\ fuse = FALSE /\ artifacts = FALSE /\ copy_in = FALSE
    /\ tempdir = "open" /\ mounted = FALSE /\ copied_in = TRUE /\ copied_out = FALSE
    /\ failed_step = "none"
    /\ emuState = "running" /\ emuStatus = NoCode /\ emuCause = "none"
    /\ config \in Configs
    /\ GuestOff
    /\ MergeIdle /\ BaseIdle /\ FunctionsIdle

SpecDaemon == InitDaemon /\ [][NextGuest]_vars

\* The steps of the daemon process itself.
DaemonStep ==
    \/ DaemonStart \/ inner_setup \/ inner_name \/ inner_spawn
    \/ handle_event_Pty \/ handle_event_Timer \/ try_wait \/ next_event
    \/ kill \/ wait \/ inner_status
    \/ main_ok_shutdown \/ main_ok_exit \/ main_err_eprintln \/ main_err

\* A step of the daemon in which no system call fails.
DaemonProgress ==
    DaemonStep /\ (derr' = "Io" => derr = "Io") /\ dpc' # "panicked"

\* The daemon is the only thread of its process and is always scheduled again:
\* a step that needs no failure of the system to happen is eventually taken;
\* an armed timer expires.  Nothing is assumed about the child.
SpecDaemonFair ==
    InitDaemon /\ [][NextGuest]_vars /\ WF_vars(DaemonProgress) /\ WF_vars(TimerFire)

(***************************************************************************)
(* Host side: `redoxer exec` (src/src/exec.rs main, inner).                *)
(***************************************************************************)
HostOnly  == UNCHANGED <<evars, gvars, mvars, bvars, fvars>>

\* the table with status 53 falling into the default arm
exit_code_no_53(st) == IF st = 51 THEN 0 ELSE 2

\* exec.rs:409-422: the emulator's status.code() to the harness code.
exit_code(st) == IF st = 51 THEN 0 ELSE IF st = 53 THEN 1 ELSE 2

\* process::exit(c)
exit(c, cause) == hexit' = c /\ hcause' = cause /\ hpc' = "exited"

\* exec.rs:466-469
usage == exit(1, "usage")

\* an error of inner() reported with the exit code usage() uses
main_Err_as_usage == exit(1, "error")

\* exec.rs:659-662: inner() returned Err
main_Err == exit(3, "error")

\* a panic unwinds out of main: unknown target (exec.rs:26), no firmware file
\* (exec.rs:97), a failed unmount in RedoxFs::drop (redoxfs.rs:101-110)
panic == exit(101, "panic")

\* the configuration, fixed once parsed, and the state of the run image
hconf == <<arguments, fuse, artifacts, copy_in>>
himage == <<tempdir, mounted, copied_in, copied_out, failed_step>>

\* exec.rs:644-654: parse the command line; a parse error, artifacts without the
\* mountable backend (602-604) and an empty command all end in usage().
main_parse ==
    /\ hpc = "main"
    /\ \/ \* RedoxerExecConfig::new returned Err
          usage
       \/ /\ (artifacts /\ ~fuse) \/ Len(arguments) = 0
          /\ usage
       \/ /\ ~(artifacts /\ ~fuse) /\ Len(arguments) > 0
          /\ hpc' = "inner"
          /\ UNCHANGED <<hexit, hcause>>
    /\ UNCHANGED <<hconf, code, himage>>
    /\ HostOnly

\* exec.rs:285-306: the emulator, and fusermount or tar, must be installed.
inner_installed ==
    /\ hpc = "inner"
    /\ \/ hpc' = "base" /\ UNCHANGED <<hexit, hcause>>
       \/ exit(1, "tool")
       \/ \* `which` could not be run
          main_Err
       \/ \* qemu_executable() does not know the target
          panic
    /\ UNCHANGED <<hconf, code, himage>>
    /\ HostOnly

\* inner() returns Err, or a panic unwinds: the locals are dropped in reverse
\* order of declaration, the RedoxFs value first if there is one (redoxfs.rs:
\* 101-111: it unmounts, and panics when that fails), then the TempDir, whose
\* drop removes the workspace.  main exits with 3 on Err, a panic ends the
\* process with 101.
closed == IF tempdir = "open" THEN "closed" ELSE tempdir
return_Err ==
    \/ /\ mounted' = FALSE /\ tempdir' = closed /\ main_Err
    \/ \* RedoxFs::drop cannot unmount
       /\ mounted /\ UNCHANGED mounted /\ tempdir' = closed /\ panic
unwind == mounted' = FALSE /\ tempdir' = closed /\ panic

\* exec.rs:308-315: bootloader and base image; in tar mode base() runs the
\* archiver (exec.rs:217-227), in fuse mode shrink_disk may panic.
inner_base ==
    /\ hpc = "base"
    /\ \/ hpc' = "tempdir" /\ UNCHANGED <<hexit, hcause, himage>>
       \/ return_Err /\ UNCHANGED <<copied_in, copied_out, failed_step>>
       \/ /\ ~fuse /\ failed_step' = "archiver"
          /\ return_Err /\ UNCHANGED <<copied_in, copied_out>>
       \/ fuse /\ unwind /\ UNCHANGED <<copied_in, copied_out, failed_step>>
    /\ UNCHANGED <<hconf, code>>
    /\ HostOnly

\* exec.rs:317-320: the temporary workspace
inner_tempdir ==
    /\ hpc = "tempdir"
    /\ \/ /\ tempdir' = "open" /\ hpc' = "image"
          /\ UNCHANGED <<hexit, hcause, mounted, copied_in, copied_out, failed_step>>
       \/ return_Err /\ UNCHANGED <<copied_in, copied_out, failed_step>>
    /\ UNCHANGED <<hconf, code>>
    /\ HostOnly

\* exec.rs:322-334: in fuse mode cp the base image and expand it; the directory
\* tempdir/redoxer
inner_copy_base ==
    /\ hpc = "image"
    /\ \/ hpc' = "redoxfs" /\ UNCHANGED <<hexit, hcause, himage>>
       \/ \* cp exited non-zero
          /\ fuse /\ failed_step' = "cp"
          /\ return_Err /\ UNCHANGED <<copied_in, copied_out>>
       \/ \* cp could not be run, expand_disk or create_dir_all failed
          return_Err /\ UNCHANGED <<copied_in, copied_out, failed_step>>
    /\ UNCHANGED <<hconf, code>>
    /\ HostOnly

\* exec.rs:336-342: mount the image (RedoxFs::new), or extract the base archive
inner_redoxfs ==
    /\ hpc = "redoxfs"
    /\ \/ /\ hpc' = "config"
          /\ mounted' = fuse
          /\ UNCHANGED <<hexit, hcause, tempdir, copied_in, copied_out, failed_step>>
       \/ \* tar exited non-zero
          /\ ~fuse /\ failed_step' = "tar"
          /\ return_Err /\ UNCHANGED <<copied_in, copied_out>>
       \/ \* the mount failed, tar could not be run
          return_Err /\ UNCHANGED <<copied_in, copied_out, failed_step>>
       \/ \* the mount failed and RedoxFs::drop cannot read the mount table
          fuse /\ unwind /\ UNCHANGED <<copied_in, copied_out, failed_step>>
    /\ UNCHANGED <<hconf, code>>
    /\ HostOnly

\* exec.rs:344-348: the configuration file (no folder is mapped to /root); the
\* daemon will read the lines of /etc/redoxerd.
inner_write_config ==
    /\ hpc = "config"
    /\ \/ /\ hpc' = "folders"
          /\ config' = lines(write_redoxerd_config(arguments, NoFolder))
          /\ UNCHANGED <<hexit, hcause, himage>>
       \/ return_Err /\ UNCHANGED <<config, copied_in, copied_out, failed_step>>
    /\ UNCHANGED <<hconf, code>>
    /\ UNCHANGED <<dctl, cvars, iovars, qvars, ports>>
    /\ UNCHANGED <<evars, mvars, bvars, fvars>>

\* exec.rs:350-365: rsync every folder into the image
inner_copy_folders ==
    /\ hpc = "folders"
    /\ \/ /\ hpc' = "unmount" /\ copied_in' = TRUE
          /\ UNCHANGED <<hexit, hcause, tempdir, mounted, copied_out, failed_step>>
       \/ \* rsync exited non-zero
          /\ copy_in /\ failed_step' = "rsync"
          /\ return_Err /\ UNCHANGED <<copied_in, copied_out>>
       \/ \* create_dir_all failed, rsync could not be run
          copy_in /\ return_Err /\ UNCHANGED <<copied_in, copied_out, failed_step>>
    /\ UNCHANGED <<hconf, code>>
    /\ HostOnly

\* unmount returns Ok and the directory is mounted as before
unmount_leaves_mounted(m) == m

\* redoxfs.rs:71-85: unmount returns Ok when the directory is not mounted, or
\* is no longer mounted after fusermount -u
unmount(m) == FALSE

\* exec.rs:367-380: unmount the image, or archive the directory into an image
inner_unmount ==
    /\ hpc = "unmount"
    /\ \/ /\ hpc' = "launch"
          /\ mounted' = unmount(mounted)
          /\ UNCHANGED <<hexit, hcause, tempdir, copied_in, copied_out, failed_step>>
       \/ \* unmount or archive_image returned Err
          return_Err /\ UNCHANGED <<copied_in, copied_out, failed_step>>
    /\ UNCHANGED <<hconf, code>>
    /\ HostOnly

\* exec.rs:382-405: command.status() starts the emulator and waits for it.
inner_launch ==
    /\ hpc = "launch"
    /\ \/ /\ hpc' = "status"
          /\ emuState' = "running"
          /\ UNCHANGED <<hexit, hcause, emuStatus, emuCause, himage>>
       \/ return_Err /\ UNCHANGED <<evars, copied_in, copied_out, failed_step>>
       \/ \* qemu_default_args: no firmware file (exec.rs:97)
          unwind /\ UNCHANGED <<evars, copied_in, copied_out, failed_step>>
    /\ UNCHANGED <<hconf, code>>
    /\ UNCHANGED <<gvars, mvars, bvars, fvars>>

\* exec.rs:405-422: the emulator has ended; map its status.
inner_code ==
    /\ hpc = "status" /\ emuState = "exited"
    /\ code' = exit_code(emuStatus)
    /\ hpc' = "log"
    /\ UNCHANGED <<hconf, hexit, hcause, himage>>
    /\ HostOnly

\* exec.rs:424-428: copy or print the console log.
inner_log ==
    /\ hpc = "log"
    /\ \/ hpc' = "artifacts" /\ UNCHANGED <<hexit, hcause, himage>>
       \/ return_Err /\ UNCHANGED <<copied_in, copied_out, failed_step>>
    /\ UNCHANGED <<hconf, code>>
    /\ HostOnly

\* artifacts are copied out after any run
copy_artifacts_any_code(c, a) == a

\* exec.rs:433: code == 0 && !config.artifacts.is_empty()
copy_artifacts(c, a) == c = 0 /\ a

\* exec.rs:433-438: after a success with artifacts declared, mount the image
\* again; unimplemented!() without the mountable backend
inner_artifacts ==
    /\ hpc = "artifacts"
    /\ IF copy_artifacts(code, artifacts)
          THEN \/ /\ fuse /\ hpc' = "copy_out" /\ mounted' = TRUE
                  /\ UNCHANGED <<hexit, hcause, tempdir, copied_in, copied_out, failed_step>>
               \/ fuse /\ return_Err /\ UNCHANGED <<copied_in, copied_out, failed_step>>
               \/ ~fuse /\ unwind /\ UNCHANGED <<copied_in, copied_out, failed_step>>
          ELSE hpc' = "close" /\ UNCHANGED <<hexit, hcause, himage>>
    /\ UNCHANGED <<hconf, code>>
    /\ HostOnly

\* exec.rs:440-454: rsync every artifact folder out of the image
inner_copy_artifacts ==
    /\ hpc = "copy_out"
    /\ \/ /\ hpc' = "unmount_out" /\ copied_out' = TRUE
          /\ UNCHANGED <<hexit, hcause, tempdir, mounted, copied_in, failed_step>>
       \/ return_Err /\ UNCHANGED <<copied_in, copied_out, failed_step>>
    /\ UNCHANGED <<hconf, code>>
    /\ HostOnly

\* exec.rs:456-458: unmount the image
inner_artifacts_unmount ==
    /\ hpc = "unmount_out"
    /\ \/ /\ hpc' = "close" /\ mounted' = unmount(mounted)
          /\ UNCHANGED <<hexit, hcause, tempdir, copied_in, copied_out, failed_step>>
       \/ return_Err /\ UNCHANGED <<copied_in, copied_out, failed_step>>
    /\ UNCHANGED <<hconf, code>>
    /\ HostOnly

\* exec.rs:461-463 and 655-658: close the workspace, exit with the code.
inner_close ==
    /\ hpc = "close"
    /\ \/ tempdir' = "closed" /\ exit(code, "result")
       \/ \* the workspace could not be removed
          tempdir' = "closed" /\ main_Err
    /\ UNCHANGED <<hconf, code, mounted, copied_in, copied_out, failed_step>>
    /\ HostOnly

\* The emulator process ends in any other way: it is killed, it fails, or the
\* guest powers off.
OtherStatuses == {NoCode, 0, 1}

EmuAbort ==
    /\ emuState = "running"
    /\ emuState' = "exited"
    /\ emuStatus' \in OtherStatuses
    /\ emuCause' = "other"
    /\ UNCHANGED <<hvars, gvars, mvars, bvars, fvars>>

NextHost ==
    \/ main_parse \/ inner_installed \/ inner_base \/ inner_tempdir
    \/ inner_copy_base \/ inner_redoxfs \/ inner_write_config
    \/ inner_copy_folders \/ inner_unmount \/ inner_launch
    \/ inner_code \/ inner_log \/ inner_artifacts \/ inner_copy_artifacts
    \/ inner_artifacts_unmount \/ inner_close

ArgVectors == {<<>>, << <<"p", "r", "o", "g">> >>,
               << <<"p", "r", "o", "g">>, <<"a", "r", "g">> >>}

Init ==
    /\ hpc = "main" /\ arguments \in ArgVectors /\ code = NoCode /\ hexit = NoCode
    /\ hcause = "none" /\ fuse \in BOOLEAN /\ artifacts \in BOOLEAN
    /\ copy_in \in BOOLEAN
    /\ tempdir = "none" /\ mounted = FALSE /\ copied_in = FALSE /\ copied_out = FALSE
    /\ failed_step = "none"
    /\ emuState = "off" /\ emuStatus = NoCode /\ emuCause = "none"
    /\ config = <<>>
    /\ GuestOff
    /\ MergeIdle /\ BaseIdle /\ FunctionsIdle

Next == NextHost \/ EmuAbort \/ NextGuest

Spec == Init /\ [][Next]_vars

(***************************************************************************)
(* Claims about the exit codes and the guest daemon                        *)
(***************************************************************************)
\* The completion values written to the exit port so far, in order.
ExitWrites == SelectSeq(ports, LAMBDA w : w[1] = PORT_EXIT)

C2_EndToEnd ==
    (emuCause = "port" /\ derr \in {"none", "Exit"}) =>
        /\ childStatus = Exited(0) =>
              /\ emuStatus = 51
              /\ (hpc = "exited" /\ hcause = "result") => hexit = 0
        /\ childStatus = Exited(1) =>
              /\ emuStatus = 53
              /\ (hpc = "exited" /\ hcause = "result") => hexit = 1

\* The child wrote output and exited with 0; the daemon saw the terminal closure
\* before the exit, and the harness still exited with 0.
C2_Witness ==
    /\ hpc = "exited" /\ hexit = 0 /\ emuStatus = 51
    /\ childStatus = Exited(0) /\ closedSeen /\ killIssued
    /\ Len(consumed) = MaxOut

\* C3: the success value is written to the exit port only when the program was
\* spawned and its observed status is exit code 0; a daemon that ends after any
\* other outcome has written the failure value and nothing else to that port; a
\* child ended by the daemon's kill never leads to the success value.
C3_SuccessOnlyOnSuccess ==
    /\ (\E k \in 1..Len(ExitWrites) : ExitWrites[k][2] = success_value) =>
          /\ child = "reaped" /\ status = Exited(0) /\ derr = "none"
          /\ childStatus # Signaled(SIGKILL)
    /\ (dpc = "done" /\ ~(child = "reaped" /\ status = Exited(0) /\ derr = "none")) =>
          ExitWrites = << <<PORT_EXIT, failure_value>> >>
    /\ dpc = "done" => Len(ExitWrites) = 1

\* The daemon killed the child and signalled failure.
C3_Witness ==
    /\ dpc = "done" /\ childStatus = Signaled(SIGKILL) /\ derr = "Exit"
    /\ ExitWrites = << <<PORT_EXIT, failure_value>> >>

\* C4 as stated: every host-level error (argument misuse, a missing tool, an error
\* returned by inner) ends the harness with a code other than the one of a
\* guest-reported failure.
C4_HostErrorsDistinct ==
    (hpc = "exited" /\ hcause \in {"usage", "tool", "error"}) => hexit # exit_code(53)

\* C4 as amended: an error returned by inner() ends the harness with code 3, which
\* differs from the code of a guest-reported failure; argument misuse and a missing
\* emulator, fuse or tar end it with code 1, the code of a guest-reported failure.
C4_Amended ==
    hpc = "exited" =>
        /\ hcause = "error" => (hexit = 3 /\ hexit # exit_code(53))
        /\ hcause \in {"usage", "tool"} => (hexit = 1 /\ hexit = exit_code(53))

\* A tool was missing and the harness exited with 1.
C4_Witness == hpc = "exited" /\ hcause = "tool" /\ hexit = 1

\* C5: once a zero-length read was seen the daemon takes no further event: it is
\* at the kill, at the blocking wait or past them, the kill has been issued once it
\* is past it, and its status comes from the blocking wait.  When the exit is seen by
\* try_wait, no zero-length read was seen, no kill is ever issued and the status is
\* the child's own exit status.
C5_DrainOrTerminate ==
    /\ closedSeen =>
          /\ dpc \in {"kill", "wait", "status", "main_ok", "main_ok2", "main_err", "done"}
          /\ dpc # "kill" => killIssued
          /\ status # NoStatus => observedBy = "wait"
    /\ observedBy = "try_wait" =>
          /\ ~closedSeen /\ ~killIssued
          /\ status = childStatus /\ status \in {Exited(0), Exited(1)}
          /\ dpc \in {"status", "main_ok", "main_ok2", "main_err", "done"}

\* The terminal closed while the child was running: the daemon killed it and got
\* its status from the blocking wait.
C5_Witness ==
    /\ closedSeen /\ killIssued /\ observedBy = "wait"
    /\ status = Signaled(SIGKILL) /\ dpc = "done"

\* C6: every byte read from the terminal master has been written to standard
\* output and to the debug console port, in the order read, none dropped,
\* duplicated or reordered.
C6_ForwardAll == stdout = consumed /\ debugcon = consumed

\* C7: with an empty configuration file no child is ever spawned; the daemon
\* fails with the configuration error when it reaches the program name (an earlier
\* setup step may fail with an I/O error first), and it ends with the failure value
\* written to the exit port.
C7_EmptyConfig ==
    Len(config) = 0 =>
        /\ child = "none"
        /\ dpc \in {"off", "inner", "name", "main_err", "done"}
        /\ dpc \in {"main_err", "done"} => derr \in {"Config", "Io"}
        /\ dpc = "done" => ports = << <<PORT_EXIT, failure_value>> >>

\* The empty configuration was rejected and failure was signalled.
C7_Witness ==
    /\ Len(config) = 0 /\ dpc = "done" /\ derr = "Config"
    /\ ports = << <<PORT_EXIT, failure_value>> >>

(***************************************************************************)
(* Argument merger: apply_qemu_args (src/src/exec.rs:239-274).             *)
(* A token is a string, held as the sequence of its characters; args_opt   *)
(* is Option<Vec<&str>>: [some |-> FALSE] is None.                         *)
(***************************************************************************)
None      == [some |-> FALSE, v |-> <<>>]
Some(vec) == [some |-> TRUE, v |-> vec]

\* str::starts_with('-')
starts_with_dash(tok) == Len(tok) > 0 /\ tok[1] = "-"

\* only the first user token is looked at
user_opts_first_only(user_args) ==
    {user_args[k] : k \in {j \in 1..Len(user_args) : j = 1 /\ starts_with_dash(user_args[j])}}

\* exec.rs:241-245: the set of user tokens that start with '-'
user_opts(user_args) ==
    {user_args[k] : k \in {j \in 1..Len(user_args) : starts_with_dash(user_args[j])}}

\* a flag counts as single only at the end of the list
is_single_flag_at_end_only(dflt, idx) == idx + 1 >= Len(dflt)

\* exec.rs:255: default.get(i + 1).is_none_or(|a| a.starts_with('-')), idx 0-based
is_single_flag(dflt, idx) ==
    \/ idx + 1 >= Len(dflt)
    \/ starts_with_dash(dflt[idx + 2])

OnlyMerge == UNCHANGED <<hvars, evars, gvars, bvars, fvars>>

\* exec.rs:240-248 and 269-271: without user arguments the defaults are final.
apply_qemu_args_begin ==
    /\ mpc = "call"
    /\ IF args_opt.some
          THEN mpc' = "while" /\ merged_args' = <<>> /\ i' = 0
          ELSE mpc' = "done" /\ merged_args' = default /\ i' = i
    /\ UNCHANGED <<default, args_opt>>
    /\ OnlyMerge

\* exec.rs:249-265: one iteration of `while i < default.len()`
apply_qemu_args_while ==
    /\ mpc = "while" /\ i < Len(default)
    /\ LET opt == default[i + 1] IN
       IF ~starts_with_dash(opt)
          THEN \* continue, with i as it is
               UNCHANGED <<i, merged_args>>
          ELSE /\ merged_args' =
                     IF opt \notin user_opts(args_opt.v)
                        THEN IF is_single_flag(default, i)
                                THEN Append(merged_args, opt)
                                ELSE merged_args \o <<opt, default[i + 2]>>
                        ELSE merged_args
               /\ i' = i + (IF is_single_flag(default, i) THEN 1 ELSE 2)
    /\ UNCHANGED <<mpc, default, args_opt>>
    /\ OnlyMerge

\* exec.rs:267-273: the user's arguments are appended as they are.
apply_qemu_args_extend ==
    /\ mpc = "while" /\ i >= Len(default)
    /\ merged_args' = merged_args \o args_opt.v
    /\ mpc' = "done"
    /\ UNCHANGED <<i, default, args_opt>>
    /\ OnlyMerge

NextMerge == apply_qemu_args_begin \/ apply_qemu_args_while \/ apply_qemu_args_extend

\* Tokens of the default list and of the user's list: flags -a, -b, -c and values.
DefaultTokens == {<<"-", "a">>, <<"-", "b">>, <<"x">>, <<"y">>}
UserTokens    == {<<"-", "a">>, <<"-", "c">>, <<"z">>}

SeqsUpTo(S, n) == UNION {[1..k -> S] : k \in 0..n}

HostIdle ==
    /\ hpc = "idle" /\ arguments = <<>> /\ code = NoCode /\ hexit = NoCode
    /\ hcause = "none" /\ fuse = FALSE /\ artifacts = FALSE /\ copy_in = FALSE
    /\ tempdir = "none" /\ mounted = FALSE /\ copied_in = FALSE /\ copied_out = FALSE
    /\ failed_step = "none"
    /\ emuState = "off" /\ emuStatus = NoCode /\ emuCause = "none"
    /\ config = <<>>

InitMerge ==
    /\ mpc = "call"
    /\ default \in SeqsUpTo(DefaultTokens, MaxDefault)
    /\ args_opt \in {None} \cup {Some(u) : u \in SeqsUpTo(UserTokens, MaxUser)}
    /\ i = 0 /\ merged_args = <<>>
    /\ HostIdle /\ GuestOff /\ BaseIdle /\ FunctionsIdle

SpecMerge == InitMerge /\ [][NextMerge]_vars

\* apply_qemu_args runs on the harness's only thread: a step that changes the
\* state is eventually taken.
SpecMergeFair == InitMerge /\ [][NextMerge]_vars /\ WF_vars(NextMerge)

(***************************************************************************)
(* Claims about the argument merger                                        *)
(***************************************************************************)
\* A default list as the harness builds it: flags, each followed by at most one
\* value, so every token that is not a flag directly follows a flag.
IsFlag(tok) == Len(tok) > 0 /\ Head(tok) = "-"
ValidDefault(d) ==
    \A k \in 1..Len(d) : ~IsFlag(d[k]) => (k > 1 /\ IsFlag(d[k - 1]))

\* The flags named in the user's list.
Overridden(u) == {tok \in {u[k] : k \in 1..Len(u)} : IsFlag(tok)}

\* The part of the output copied from the defaults.
CopiedPart ==
    IF mpc = "done" /\ args_opt.some
       THEN SubSeq(merged_args, 1, Len(merged_args) - Len(args_opt.v))
       ELSE merged_args

\* C8: with a user list given, no token of the part of the output copied from the
\* defaults is a flag named in the user's list, at any point of the merge and in
\* its result; in the result such a flag occurs only in the appended user tokens.
C8_NoOverriddenDefault ==
    (args_opt.some /\ mpc \in {"while", "done"}) =>
        /\ \A k \in 1..Len(CopiedPart) : CopiedPart[k] \notin Overridden(args_opt.v)
        /\ mpc = "done" =>
              SubSeq(merged_args, Len(CopiedPart) + 1, Len(merged_args)) = args_opt.v

\* A default flag was overridden, other defaults were copied.
C8_Witness ==
    /\ mpc = "done" /\ args_opt.some /\ ValidDefault(default)
    /\ \E k \in 1..Len(default) : default[k] \in Overridden(args_opt.v)
    /\ Len(CopiedPart) > 0

\* The defaults with every group (a flag and its value, if any) whose flag is
\* overridden removed.
RECURSIVE Retained(_, _)
Retained(d, over) ==
    IF Len(d) = 0 THEN <<>>
    ELSE LET n     == IF Len(d) >= 2 /\ ~IsFlag(d[2]) THEN 2 ELSE 1
             group == SubSeq(d, 1, n)
             rest  == Retained(SubSeq(d, n + 1, Len(d)), over)
         IN IF d[1] \in over THEN rest ELSE group \o rest

\* C9: for a valid default list the result is the defaults without the overridden
\* flags and their values, the others in their order and each with its own value,
\* followed by the user's list as given; without a user list it is the defaults.
C9_MergedIsRetainedThenUser ==
    (mpc = "done" /\ ValidDefault(default)) =>
        IF args_opt.some
           THEN merged_args = Retained(default, Overridden(args_opt.v)) \o args_opt.v
           ELSE merged_args = default

\* -a x is replaced by the user's -a z, -b y is kept with its value.
C9_Witness ==
    /\ mpc = "done"
    /\ default = << <<"-", "a">>, <<"x">>, <<"-", "b">>, <<"y">> >>
    /\ args_opt = Some(<< <<"-", "a">>, <<"z">> >>)
    /\ merged_args = << <<"-", "b">>, <<"y">>, <<"-", "a">>, <<"z">> >>

(***************************************************************************)
(* base(): one action per file-system step; every step may fail, which     *)
(* returns Err and leaves the cache directory as it is.                    *)
(***************************************************************************)
OnlyBase == UNCHANGED <<hvars, evars, gvars, mvars, fvars>>

\* base() returns; fs is the cache directory it leaves.
Return(ok, fs) ==
    /\ bpc' = "idle"
    /\ last' = [ok |-> ok, manifest |-> config_str, fuse |-> base_fuse,
                path |-> base_file(base_fuse), built |-> built,
                cleared |-> cleared, files |-> fs]

\* a step fails with `?`
Err == Return(FALSE, files) /\ UNCHANGED <<files, built, cleared>>

\* inner calls base(bootloader_bin, name, config_str, fuse), exec.rs:309-315
base_call ==
    /\ bpc = "idle" /\ calls < MaxCalls
    /\ calls' = calls + 1
    /\ config_str' \in Manifests
    /\ base_fuse' \in BOOLEAN
    /\ built' = FALSE /\ cleared' = FALSE
    /\ prev' = last
    /\ bpc' = "check"
    /\ UNCHANGED <<files, last, other>>
    /\ OnlyBase

\* the recorded manifest counts as changed when it is equal
changed_when_equal(r, s) == r = s

\* exec.rs:176: r != config_str
changed(r, s) == r # s

\* exec.rs:174-177: compare the recorded manifest with the requested one
base_check ==
    /\ bpc = "check"
    /\ \/ /\ is_file(base_toml) /\ is_file(base_file(base_fuse))
          /\ \/ /\ bpc' = (IF changed(files[base_toml], config_str)
                              THEN "remove_toml" ELSE "is_file")
                /\ UNCHANGED <<files, built, cleared, last>>
             \/ Err
       \/ /\ ~(is_file(base_toml) /\ is_file(base_file(base_fuse)))
          /\ bpc' = "is_file"
          /\ UNCHANGED <<files, built, cleared, last>>
    /\ UNCHANGED <<config_str, base_fuse, calls, prev, other>>
    /\ OnlyBase

\* exec.rs:178: fs::remove_file(&base_toml)
base_remove_toml ==
    /\ bpc = "remove_toml"
    /\ \/ /\ files' = [files EXCEPT ![base_toml] = Absent]
          /\ cleared' = TRUE
          /\ bpc' = "remove_file"
          /\ UNCHANGED <<built, last>>
       \/ Err
    /\ UNCHANGED <<config_str, base_fuse, calls, prev, other>>
    /\ OnlyBase

\* exec.rs:179: fs::remove_file(&base_file)
base_remove_file ==
    /\ bpc = "remove_file"
    /\ \/ /\ files' = [files EXCEPT ![base_file(base_fuse)] = Absent]
          /\ bpc' = "is_file"
          /\ UNCHANGED <<built, cleared, last>>
       \/ Err
    /\ UNCHANGED <<config_str, base_fuse, calls, prev, other>>
    /\ OnlyBase

\* exec.rs:182 and 236: a cached image is returned as it is
base_is_file ==
    /\ bpc = "is_file"
    /\ IF is_file(base_file(base_fuse))
          THEN Return(TRUE, files) /\ UNCHANGED built
          ELSE bpc' = "base_dir" /\ built' = TRUE /\ UNCHANGED last
    /\ UNCHANGED <<files, cleared>>
    /\ UNCHANGED <<config_str, base_fuse, calls, prev, other>>
    /\ OnlyBase

\* exec.rs:185-189: a fresh build directory
base_create_dir ==
    /\ bpc = "base_dir"
    /\ \/ /\ files' = [files EXCEPT ![base_dir] = "empty"]
          /\ bpc' = "base_partial"
          /\ UNCHANGED <<built, cleared, last>>
       \/ Err
    /\ UNCHANGED <<config_str, base_fuse, calls, prev, other>>
    /\ OnlyBase

\* exec.rs:191-194: a left-over .partial file is removed
base_remove_partial ==
    /\ bpc = "base_partial"
    /\ \/ /\ files' = [files EXCEPT ![base_partial(base_fuse)] = Absent]
          /\ bpc' = "install"
          /\ UNCHANGED <<built, cleared, last>>
       \/ Err
    /\ UNCHANGED <<config_str, base_fuse, calls, prev, other>>
    /\ OnlyBase

\* exec.rs:198-207, 215: the installer has started: in fuse mode
\* read_bootloader has created (or truncated) the file at the .partial path
\* (redoxfs.rs:185-186), otherwise run_install_to_dir fills the build directory;
\* both are incomplete until base_install ends.
base_install_begin ==
    /\ bpc = "install"
    /\ LET p == IF base_fuse THEN base_partial(TRUE) ELSE base_dir IN
       /\ files[p] # "junk"
       /\ files' = [files EXCEPT ![p] = "junk"]
    /\ UNCHANGED <<bpc, built, cleared, last>>
    /\ UNCHANGED <<config_str, base_fuse, calls, prev, other>>
    /\ OnlyBase

\* exec.rs:198-207 with redoxfs.rs:113-146 (an existing name.tar is extracted
\* instead of running the installer), and exec.rs:215-227 (install into the
\* directory, then tar it).  A failure leaves an incomplete .partial or directory.
base_install ==
    /\ bpc = "install"
    /\ IF base_fuse
          THEN \/ /\ files' = [files EXCEPT ![base_partial(TRUE)] =
                                   IF is_file(base_tar) THEN files[base_tar]
                                                        ELSE config_str]
                  /\ bpc' = (IF is_file(base_tar) THEN "rename" ELSE "shrink")
                  /\ UNCHANGED <<built, cleared, last>>
               \/ /\ files' = [files EXCEPT ![base_partial(TRUE)] = "junk"]
                  /\ Return(FALSE, files')
                  /\ UNCHANGED <<built, cleared>>
          ELSE \/ /\ files' = [files EXCEPT ![base_dir] = config_str,
                                            ![base_partial(FALSE)] = config_str]
                  /\ bpc' = "rename"
                  /\ UNCHANGED <<built, cleared, last>>
               \/ /\ \E d \in {"junk", config_str}, part \in {Absent, "junk"} :
                        files' = [files EXCEPT ![base_dir] = d,
                                               ![base_partial(FALSE)] = part]
                  /\ Return(FALSE, files')
                  /\ UNCHANGED <<built, cleared>>
    /\ UNCHANGED <<config_str, base_fuse, calls, prev, other>>
    /\ OnlyBase

\* exec.rs:209-213: shrink_disk(&base_partial)
base_shrink ==
    /\ bpc = "shrink"
    /\ \/ bpc' = "rename" /\ UNCHANGED <<files, built, cleared, last>>
       \/ Err
    /\ UNCHANGED <<config_str, base_fuse, calls, prev, other>>
    /\ OnlyBase

\* exec.rs:230: fs::rename(&base_partial, &base_file)
base_rename ==
    /\ bpc = "rename"
    /\ \/ /\ files' = [files EXCEPT ![base_file(base_fuse)] = files[base_partial(base_fuse)],
                                    ![base_partial(base_fuse)] = Absent]
          /\ bpc' = "remove_dir"
          /\ UNCHANGED <<built, cleared, last>>
       \/ Err
    /\ UNCHANGED <<config_str, base_fuse, calls, prev, other>>
    /\ OnlyBase

\* exec.rs:231-233: the build directory is removed
base_remove_dir ==
    /\ bpc = "remove_dir"
    /\ \/ /\ files' = [files EXCEPT ![base_dir] = Absent]
          /\ bpc' = "write_toml"
          /\ UNCHANGED <<built, cleared, last>>
       \/ Err
    /\ UNCHANGED <<config_str, base_fuse, calls, prev, other>>
    /\ OnlyBase

\* exec.rs:234-236: fs::write(base_toml, config_str), then Ok((base_file, ..))
base_write_toml ==
    /\ bpc = "write_toml"
    /\ \/ /\ files' = [files EXCEPT ![base_toml] = config_str]
          /\ Return(TRUE, files')
          /\ UNCHANGED <<built, cleared>>
       \/ Err
    /\ UNCHANGED <<config_str, base_fuse, calls, prev, other>>
    /\ OnlyBase

NextBase ==
    \/ base_call \/ base_check \/ base_remove_toml \/ base_remove_file
    \/ base_is_file \/ base_create_dir \/ base_remove_partial
    \/ base_install_begin \/ base_install
    \/ base_shrink \/ base_rename \/ base_remove_dir \/ base_write_toml

\* Two invocations of the harness use the same cache directory; base() takes no
\* lock.  The operating system runs the other invocation: its locals of base()
\* become the current ones.
Switch ==
    /\ bpc # "idle" \/ other.bpc # "idle"
    /\ other' = [bpc |-> bpc, config_str |-> config_str, base_fuse |-> base_fuse,
                 built |-> built, cleared |-> cleared]
    /\ bpc' = other.bpc /\ config_str' = other.config_str
    /\ base_fuse' = other.base_fuse
    /\ built' = other.built /\ cleared' = other.cleared
    /\ UNCHANGED <<files, calls, last, prev>>
    /\ OnlyBase

NextBase2 == NextBase \/ Switch

InitBase == HostIdle /\ GuestOff /\ MergeIdle /\ BaseIdle /\ FunctionsIdle

SpecBase == InitBase /\ [][NextBase]_vars

\* two concurrent invocations against one cache directory
SpecBase2 == InitBase /\ [][NextBase2]_vars

(***************************************************************************)
(* Claims about the base image cache                                       *)
(***************************************************************************)
\* C10: when base() returns Ok and the call before it returned Ok for the same
\* manifest and the same backend, the later call entered no build and deleted
\* nothing, it left the cache directory (image and manifest record included) as
\* the earlier call left it, and it returned the same path.
C10_SecondCallNoRebuild ==
    (bpc = "idle" /\ last.ok /\ prev.ok
        /\ last.manifest = prev.manifest /\ last.fuse = prev.fuse) =>
        /\ ~last.built /\ ~last.cleared
        /\ last.files = prev.files
        /\ last.path = prev.path

\* The first call built the image, the second, with the same manifest, did not.
C10_Witness ==
    /\ bpc = "idle" /\ calls = 2 /\ last.ok /\ prev.ok
    /\ last.manifest = prev.manifest /\ last.fuse = prev.fuse
    /\ prev.built /\ ~last.built
    /\ last.files[last.path] = last.manifest /\ last.files[base_toml] = last.manifest

\* The cache directory a call of base() started from: between calls `last.files`
\* is the directory the latest return left, so during a call it is the directory
\* at the call, and after the return it is `prev.files`.
StaleAtCall(fs, f, m) == fs[base_file(f)] \in Manifests \ {m}

\* C11: a call of base() that finds at the final path an image built from another
\* manifest has deleted that image and the manifest record before any step of the
\* rebuild starts, and when it returns Ok the image at the returned path is built
\* from the requested manifest (the stale image is never returned).
C11_DriftDeletesStale ==
    /\ (bpc \in {"base_dir", "base_partial", "install", "shrink"}
           /\ StaleAtCall(last.files, base_fuse, config_str)) =>
          (cleared /\ ~is_file(base_toml) /\ ~is_file(base_file(base_fuse)))
    /\ (bpc = "idle" /\ last.ok
           /\ StaleAtCall(prev.files, last.fuse, last.manifest)) =>
          (last.cleared /\ last.files[last.path] = last.manifest)

\* C12: the image is built under the .partial name and reaches the final path
\* only by the rename that follows the successful build steps: while a build is
\* under way nothing is at the final path, no incomplete image is ever at a final
\* path, whatever step failed, and no call returns an incomplete image.
C12_PartialNeverPromoted ==
    /\ \A f \in BOOLEAN : files[base_file(f)] # "junk"
    /\ bpc \in {"base_dir", "base_partial", "install", "shrink", "rename"} =>
          ~is_file(base_file(base_fuse))
    /\ (bpc = "idle" /\ last.ok) => last.files[last.path] # "junk"

\* A build failed and left an incomplete .partial file; the next call, for the
\* same backend, built the image again and returned a complete one.
C12_Witness ==
    /\ bpc = "idle" /\ last.ok /\ last.built /\ ~prev.ok /\ prev.built
    /\ prev.fuse = last.fuse
    /\ prev.files[base_partial(prev.fuse)] = "junk"
    /\ last.files[last.path] = last.manifest
    /\ last.files[base_partial(last.fuse)] = Absent

(***************************************************************************)
(* Disk sizer: shrink_disk, expand_disk and resize (src/src/redoxfs.rs).   *)
(* Sizes are in bytes.  The image file holds fs_block blocks in front of   *)
(* the filesystem; the filesystem's blocks are numbered from 0.  The       *)
(* allocation log is the on-disk form of the allocator: an entry with a    *)
(* positive count frees the blocks index .. index+count-1, one with a      *)
(* negative count allocates them.  How the filesystem library lays out the *)
(* log when it commits is not fixed by the harness: a commit with squash   *)
(* leaves any list of disjoint free extents that covers the free blocks.   *)
(***************************************************************************)
BLOCK_SIZE == 4096

MaxBlocks == 3       \* blocks of the filesystem in an initial image
MaxOps    == 3       \* operations applied to one image

OnlyResize == UNCHANGED <<hvars, evars, gvars, mvars, bvars, wvars, pvars, nvars, xvars>>

Entry(idx, cnt) == [index |-> idx, count |-> cnt]
Blocks(e) == IF e.count > 0 THEN e.index .. (e.index + e.count - 1)
                            ELSE e.index .. (e.index - e.count - 1)

\* FileSystem::open rebuilds the allocator from the log.
RECURSIVE Replay(_, _)
Replay(lg, free) ==
    IF lg = <<>> THEN free
    ELSE Replay(Tail(lg), IF Head(lg).count > 0 THEN free \cup Blocks(Head(lg))
                                                 ELSE free \ Blocks(Head(lg)))

\* A log the library can have written for a filesystem of n blocks: it frees
\* allocated blocks and allocates free ones.
RECURSIVE WellFormed(_, _, _)
WellFormed(lg, free, n) ==
    IF lg = <<>> THEN TRUE
    ELSE LET e == Head(lg) IN
         /\ e.count # 0 /\ Blocks(e) \subseteq 0..(n - 1)
         /\ IF e.count > 0 THEN Blocks(e) \cap free = {} ELSE Blocks(e) \subseteq free
         /\ WellFormed(Tail(lg), IF e.count > 0 THEN free \cup Blocks(e)
                                                ELSE free \ Blocks(e), n)

\* Lists of disjoint free extents, in ascending order, covering exactly `free`:
\* one for every choice of the blocks at which an extent starts.
RECURSIVE Extents(_, _, _)
Extents(free, starts, from) ==
    IF \A b \in starts : b < from THEN <<>>
    ELSE LET s == CHOOSE b \in starts : b >= from /\ \A c \in starts : c >= from => b <= c
             e == CHOOSE x \in (s + 1)..(s + Cardinality(free)) :
                      /\ x \in starts \/ x \notin free
                      /\ \A y \in (s + 1)..(x - 1) : y \in free /\ y \notin starts
         IN <<Entry(s, e - s)>> \o Extents(free, starts, e)
Squashed(free) ==
    {Extents(free, starts, 0) :
        starts \in {S \in SUBSET free : \A b \in free : (b - 1) \notin free => b \in S}}

\* redoxfs.rs:305-324: the entry with the greatest end among those with count > 0
RECURSIVE scan(_, _, _)
scan(lg, last_free, last_end) ==
    IF lg = <<>> THEN last_free
    ELSE LET entry == Head(lg)
             end   == entry.index + entry.count
         IN IF entry.count <= 0 THEN scan(Tail(lg), last_free, last_end)
            ELSE IF end > last_end THEN scan(Tail(lg), Some(entry), end)
            ELSE scan(Tail(lg), last_free, last_end)

\* the minimal size is the start of the first free entry of the log
min_size_first_free ==
    LET pos == {k \in DOMAIN alloc_log : alloc_log[k].count > 0}
    IN IF pos = {} THEN header_size
       ELSE alloc_log[CHOOSE k \in pos : \A l \in pos : k <= l].index * BLOCK_SIZE

\* redoxfs.rs:328-332
min_size == LET last_free == scan(alloc_log, None, 0)
            IN IF last_free.some THEN last_free.v.index * BLOCK_SIZE ELSE header_size
max_size_whole_file == disk_len

\* redoxfs.rs:333: the file without the blocks in front of the filesystem
max_size == disk_len - fs_block * BLOCK_SIZE

Snapshot == [disk_len |-> disk_len, header_size |-> header_size, alloc_log |-> alloc_log]

\* an operation ends: Ok, Err or a panic
Finish(how) == rpc' = "idle" /\ rresult' = how
RErr == /\ Finish("err") /\ trip' = "none"
        /\ UNCHANGED <<disk_len, header_size, alloc_log, allocator, old_size,
                       new_size, index>>

\* exec.rs:211: shrink_disk(&base_partial)
shrink_disk_call ==
    /\ rpc = "idle" /\ ops < MaxOps
    /\ ops' = ops + 1 /\ rop' = "shrink" /\ rresult' = "none"
    /\ pre' = Snapshot
    /\ rpc' = "open_fs"
    /\ UNCHANGED <<disk_len, fs_block, header_size, alloc_log, allocator, live,
                   old_size, new_size, index, desired_size, trip, before, newly_written>>
    /\ OnlyResize

\* exec.rs:330: expand_disk(&redoxer_bin, qemu_disk_size())
expand_disk_call ==
    /\ rpc = "idle" /\ ops < MaxOps
    /\ ops' = ops + 1 /\ rop' = "expand" /\ rresult' = "none"
    /\ pre' = Snapshot
    /\ desired_size' \in {k * BLOCK_SIZE : k \in 1..(fs_block + MaxBlocks + 1)}
    /\ before' = disk_len /\ newly_written' = 0 /\ trip' = "none"
    /\ rpc' = "set_len"
    /\ UNCHANGED <<disk_len, fs_block, header_size, alloc_log, allocator, live,
                   old_size, new_size, index>>
    /\ OnlyResize

\* redoxfs.rs:242-255: grow the file, or return when it is large enough
expand_set_len ==
    /\ rpc = "set_len" /\ rop = "expand"
    /\ \/ /\ disk_len < desired_size
          /\ disk_len' = desired_size
          /\ rpc' = "open_fs"
          /\ UNCHANGED <<rresult, trip>>
       \/ /\ ~(disk_len < desired_size)
          /\ Finish("ok")
          /\ UNCHANGED <<disk_len, trip>>
       \/ RErr
    /\ UNCHANGED <<rop, fs_block, header_size, alloc_log, allocator, live, old_size,
                   new_size, index, desired_size, pre, ops, before, newly_written>>
    /\ OnlyResize

\* redoxfs.rs:266-279: open_fs
open_fs ==
    /\ rpc = "open_fs"
    /\ \/ /\ allocator' = Replay(alloc_log, {})
          /\ rpc' = "resize"
          /\ UNCHANGED <<rresult, trip>>
       \/ RErr /\ UNCHANGED allocator
    /\ UNCHANGED <<rop, disk_len, fs_block, header_size, alloc_log, live, old_size,
                   new_size, index, desired_size, pre, ops, before, newly_written>>
    /\ OnlyResize

\* the round trip advances when an operation of it returns Ok
TripAfterOk ==
    IF rop = "expand" THEN "expanded"
    ELSE IF trip = "expanded" THEN "shrunk" ELSE "none"

\* the whole old size is taken off the file
shrink_size_whole(old, new) == IF old > new THEN Some(old) ELSE None

\* redoxfs.rs:221-225: what shrink_disk takes off the file
shrink_size(old, new) == IF old > new THEN Some(old - new) ELSE None

\* the test for equal sizes never holds
same_size_never(new, old) == FALSE

\* redoxfs.rs:339: new_size == old_size
same_size(new, old) == new = old

\* redoxfs.rs:297-343: sizes; equal sizes return at once
resize_sizes ==
    /\ rpc = "resize"
    /\ \/ LET new == IF rop = "shrink" THEN min_size ELSE max_size IN
          /\ old_size' = header_size
          /\ new_size' = new
          /\ IF same_size(new, header_size)
                THEN /\ Finish("ok") /\ trip' = TripAfterOk /\ UNCHANGED index
                ELSE /\ index' = (IF new < header_size THEN new ELSE header_size) \div BLOCK_SIZE
                     /\ rpc' = "loop"
                     /\ UNCHANGED <<rresult, trip>>
       \/ \* the disk size or the log cannot be read
          RErr
    /\ UNCHANGED <<rop, disk_len, fs_block, header_size, alloc_log, allocator, live,
                   desired_size, pre, ops, before, newly_written>>
    /\ OnlyResize

\* allocate_exact returns Some(addr) for every block
allocate_exact_any(free, addr) == TRUE

\* redoxfs.rs:352: allocator.allocate_exact(addr) == Some(addr) when addr is free
allocate_exact(free, addr) == addr \in free

\* redoxfs.rs:346-358: one iteration of the loop over start..end
resize_loop ==
    /\ rpc = "loop"
    /\ LET shrink == new_size < old_size
           end    == (IF shrink THEN old_size ELSE new_size) \div BLOCK_SIZE
       IN IF index < end
             THEN IF shrink
                     THEN IF allocate_exact(allocator, index)
                             THEN /\ allocator' = allocator \ {index}
                                  /\ index' = index + 1
                                  /\ UNCHANGED <<rpc, rresult, trip>>
                             ELSE \* assert_eq! panics
                                  /\ Finish("panic") /\ trip' = "none"
                                  /\ UNCHANGED <<allocator, index>>
                     ELSE /\ allocator' = allocator \cup {index}
                          /\ index' = index + 1
                          /\ UNCHANGED <<rpc, rresult, trip>>
             ELSE /\ rpc' = "tx"
                  /\ UNCHANGED <<allocator, index, rresult, trip>>
    /\ UNCHANGED <<rop, disk_len, fs_block, header_size, alloc_log, live, old_size,
                   new_size, desired_size, pre, ops, before, newly_written>>
    /\ OnlyResize

\* redoxfs.rs:360-374: header.size = new_size, sync with squash, Ok((old, new))
resize_tx ==
    /\ rpc = "tx"
    /\ \/ /\ header_size' = new_size
          /\ alloc_log' \in Squashed(allocator)
          /\ IF rop = "shrink" /\ shrink_size(old_size, new_size).some
                THEN rpc' = "set_len" /\ UNCHANGED <<rresult, trip>>
                ELSE Finish("ok") /\ trip' = TripAfterOk
       \/ RErr /\ UNCHANGED <<header_size, alloc_log>>
    /\ UNCHANGED <<rop, disk_len, fs_block, allocator, live, old_size, new_size,
                   index, desired_size, pre, ops, before, newly_written>>
    /\ OnlyResize

\* redoxfs.rs:228-238: truncate the file by old_size - new_size
shrink_set_len ==
    /\ rpc = "set_len" /\ rop = "shrink"
    /\ \/ /\ disk_len' = disk_len - shrink_size(old_size, new_size).v
          /\ Finish("ok") /\ trip' = TripAfterOk
       \/ RErr /\ UNCHANGED disk_len
    /\ UNCHANGED <<rop, fs_block, header_size, alloc_log, allocator, live, old_size,
                   new_size, index, desired_size, pre, ops, before, newly_written>>
    /\ OnlyResize

\* exec.rs:337-369: the image is mounted, a block of data is written to a free
\* block, and the image is unmounted; the library records the allocation in the
\* log or writes the log anew.
fs_write ==
    /\ rpc = "idle" /\ ops < MaxOps
    /\ ops' = ops + 1 /\ rop' = "write" /\ rresult' = "ok"
    /\ \E b \in Replay(alloc_log, {}) :
          /\ live' = live \cup {b}
          /\ \/ alloc_log' = Append(alloc_log, Entry(b, 0 - 1))
             \/ alloc_log' \in Squashed(Replay(alloc_log, {}) \ {b})
    /\ newly_written' = newly_written + 1
    /\ pre' = Snapshot
    /\ UNCHANGED <<rpc, disk_len, fs_block, header_size, allocator, old_size,
                   new_size, index, desired_size, trip, before>>
    /\ OnlyResize

NextResize ==
    \/ shrink_disk_call \/ expand_disk_call \/ expand_set_len \/ open_fs
    \/ resize_sizes \/ resize_loop \/ resize_tx \/ shrink_set_len \/ fs_write

\* An image of n blocks behind one reserved block, the file exactly as long;
\* every block that the log leaves allocated holds live data.  The log is
\* empty, or holds one entry, or two.
LogEntries(n) == {Entry(idx, cnt) : idx \in 0..(n - 1), cnt \in ((0 - n)..n) \ {0}}
InitResize ==
    /\ rpc = "idle" /\ rop = "none" /\ rresult = "none"
    /\ fs_block = 1
    /\ \E n \in 1..MaxBlocks :
          /\ header_size = n * BLOCK_SIZE
          /\ disk_len = (fs_block + n) * BLOCK_SIZE
          /\ alloc_log \in {lg \in {<<>>} \cup {<<e>> : e \in LogEntries(n)}
                                  \cup {<<e, f>> : e, f \in LogEntries(n)} :
                                WellFormed(lg, {}, n)}
          /\ live = (0..(n - 1)) \ Replay(alloc_log, {})
    /\ allocator = {} /\ old_size = 0 /\ new_size = 0 /\ index = 0
    /\ desired_size = 0 /\ pre = NoImage /\ ops = 0 /\ trip = "none"
    /\ before = 0 /\ newly_written = 0
    /\ HostIdle /\ GuestOff /\ MergeIdle /\ BaseIdle /\ WriterIdle /\ ParseIdle
    /\ MountIdle /\ OptionsIdle

SpecResize == InitResize /\ [][NextResize]_vars

(***************************************************************************)
(* Claims about the disk sizer                                             *)
(***************************************************************************)
\* Every block that holds live data lies inside the declared size and inside
\* the backing file.
LiveInside ==
    \A b \in live : /\ (b + 1) * BLOCK_SIZE <= header_size
                    /\ (fs_block + b + 1) * BLOCK_SIZE <= disk_len

\* C13: when a shrink reaches the commit, every block of the vacated range
\* new_size .. old_size is marked allocated and was free when the operation
\* started; when a block of the range is not free the operation panics with the
\* header size, the log on disk and the file length as they were when it started;
\* after a shrink that returned Ok every live block is inside the image.
C13_ShrinkAbortsOnLiveBlock ==
    /\ (rpc = "tx" /\ rop = "shrink" /\ new_size < old_size) =>
          \A b \in (new_size \div BLOCK_SIZE)..(old_size \div BLOCK_SIZE - 1) :
              b \notin allocator /\ b \in Replay(pre.alloc_log, {})
    /\ (rpc = "idle" /\ rop = "shrink" /\ rresult = "panic") =>
          /\ Snapshot = pre
          /\ \E b \in (new_size \div BLOCK_SIZE)..(old_size \div BLOCK_SIZE - 1) :
                b \notin Replay(alloc_log, {})
    /\ (rpc = "idle" /\ rop = "shrink" /\ rresult = "ok") => LiveInside

\* A shrink marked a free block of the range allocated, came to a block that
\* holds live data and panicked; the image on disk is as it was.
C13_Witness ==
    /\ rpc = "idle" /\ rop = "shrink" /\ rresult = "panic"
    /\ index > new_size \div BLOCK_SIZE
    /\ index \in live
    /\ Snapshot = pre

\* C14: after expand_disk and then shrink_disk have both returned Ok, the file
\* is at most as long as before the expansion plus the blocks written since, and
\* every block holding live data is inside it.
C14_RoundTrip ==
    (rpc = "idle" /\ trip = "shrunk") =>
        /\ disk_len <= before + newly_written * BLOCK_SIZE
        /\ LiveInside

(***************************************************************************)
(* The configuration file written for a command line and read back.        *)
(***************************************************************************)
MaxArgs == 2         \* arguments of the command

OnlyWriter == UNCHANGED <<hvars, evars, gvars, mvars, bvars, rvars, pvars, nvars, xvars>>

\* exec.rs:344-348 and writer.rs:6-54
write_redoxerd_config_call ==
    /\ wpc = "call"
    /\ \/ /\ redoxerd_config' = write_redoxerd_config(w_arguments, folders["root"])
          /\ wpc' = "written"
       \/ \* canonicalize or a write failed
          wpc' = "err" /\ UNCHANGED redoxerd_config
    /\ UNCHANGED <<w_arguments, folders, config_lines>>
    /\ OnlyWriter

\* daemon main.rs:155-156
read_redoxerd_config ==
    /\ wpc = "written"
    /\ config_lines' = lines(redoxerd_config)
    /\ wpc' = "read"
    /\ UNCHANGED <<w_arguments, folders, redoxerd_config>>
    /\ OnlyWriter

NextWriter == write_redoxerd_config_call \/ read_redoxerd_config

\* Arguments: a path under ./p given relative and absolute, a path under the
\* sibling p2, a path under q, a path that holds /w/p twice, a plain word, and
\* arguments holding a newline or ending in a carriage return.
Args == {<<".", "/", "p", "/", "a">>, <<"/", "w", "/", "p", "/", "a">>,
         <<"/", "w", "/", "p", "2", "/", "a">>, <<"/", "w", "/", "q", "/", "a">>,
         <<"/", "w", "/", "p", "/", "w", "/", "p">>,
         <<"x">>, <<"a", NL, "b">>, <<"b", CR>>}
RootFolders == {NoFolder, Some(<<".", "/", "p">>), Some(<<"/", "w", "/", "p">>)}
DataFolders == {NoFolder, Some(<<"/", "w", "/", "q">>)}

InitWriter ==
    /\ wpc = "call"
    /\ w_arguments \in SeqsUpTo(Args, MaxArgs) \ {<<>>}
    /\ folders \in {[n \in {"root", "data"} |-> IF n = "root" THEN r ELSE d] :
                       r \in RootFolders, d \in DataFolders}
    /\ redoxerd_config = <<>> /\ config_lines = <<>>
    /\ HostIdle /\ GuestOff /\ MergeIdle /\ BaseIdle /\ ResizeIdle /\ ParseIdle
    /\ MountIdle /\ OptionsIdle

SpecWriter == InitWriter /\ [][NextWriter]_vars

(***************************************************************************)
(* Claims about the guest configuration file                               *)
(***************************************************************************)
MountPoint(n) == IF n = "root" THEN ROOT ELSE <<"/", "d", "a", "t", "a">>

\* The text holding the given lines, each ended by a newline.
RECURSIVE TextOf(_)
TextOf(ls) == IF ls = <<>> THEN <<>> ELSE Head(ls) \o <<NL>> \o TextOf(Tail(ls))

\* arg names a path under the host folder
Under(arg, folder) == starts_with(canonicalize(arg), canonicalize(folder) \o <<"/">>)

\* The line the claim expects: the path under the mount point of the mapping
\* whose folder the argument is under.
Rewritten(arg) ==
    IF \E n \in DOMAIN folders : folders[n].some /\ Under(arg, folders[n].v)
       THEN LET n == CHOOSE k \in DOMAIN folders : folders[k].some /\ Under(arg, folders[k].v)
            IN MountPoint(n) \o SubSeq(canonicalize(arg),
                                       Len(canonicalize(folders[n].v)) + 1,
                                       Len(canonicalize(arg)))
       ELSE arg

\* C15: for every folder mapping, an argument that names a path under the host
\* folder is written as the path under that folder's mount point (with ./p mapped
\* to /root the argument ./p/a is written as /root/a); other arguments are
\* written as given.
C15_RewriteUnderFolder ==
    wpc = "written" =>
        redoxerd_config = TextOf([k \in 1..Len(w_arguments) |-> Rewritten(w_arguments[k])])

\* The absolute path of the folders of the working directory /w.
AbsoluteOf(folder) == IF folder = <<".", "/", "p">> THEN <<"/", "w", "/", "p">> ELSE folder

Occurrences(s, pat) ==
    Cardinality({k \in 1..Len(s) : starts_with(SubSeq(s, k, Len(s)), pat)})

\* The arguments the amended statement speaks of: without a mapping to /root all
\* of them; with one, those that do not begin with the folder's absolute path,
\* and those that begin with that path and "/" and hold the path once.
Covered(arg) ==
    LET root == folders["root"] IN
    \/ ~root.some
    \/ ~starts_with(arg, AbsoluteOf(root.v))
    \/ /\ starts_with(arg, AbsoluteOf(root.v) \o <<"/">>)
       /\ Occurrences(arg, AbsoluteOf(root.v)) = 1

UnderRoot(arg) ==
    LET root == folders["root"] IN
    IF root.some /\ starts_with(arg, AbsoluteOf(root.v) \o <<"/">>)
       THEN ROOT \o SubSeq(arg, Len(AbsoluteOf(root.v)) + 1, Len(arg))
       ELSE arg

\* C15 (amended): only the mapping to /root rewrites, and only arguments that
\* begin with the absolute path of its host folder: such an argument, holding
\* that path once and followed by "/", is written as /root and the rest; an
\* argument that does not begin with that path (a relative one such as ./p/a, or
\* one under a folder mapped elsewhere) is written as given.
C15_Amended ==
    (wpc = "written" /\ \A k \in 1..Len(w_arguments) : Covered(w_arguments[k])) =>
        redoxerd_config = TextOf([k \in 1..Len(w_arguments) |-> UnderRoot(w_arguments[k])])

\* ./p is mapped to /root: ./p/a is written as given, /w/p/a as /root/a.
C15_Witness ==
    /\ wpc = "written"
    /\ folders["root"] = Some(<<".", "/", "p">>)
    /\ w_arguments = << <<".", "/", "p", "/", "a">>, <<"/", "w", "/", "p", "/", "a">> >>
    /\ redoxerd_config = <<".", "/", "p", "/", "a", NL, "/", "r", "o", "o", "t", "/", "a", NL>>

\* C16: the lines the daemon reads back, the program name first and then the
\* arguments, are the tokens the host wrote, one for each argument and in order.
C16_ReadBackEqualsWritten ==
    wpc = "read" =>
        /\ config_lines = [k \in 1..Len(w_arguments) |->
                              config_line(w_arguments[k], folders["root"])]
        /\ Len(config_lines) = Len(w_arguments)

(***************************************************************************)
(* Folder options: --folder and --artifact in RedoxerExecConfig::new and   *)
(* parse_folder (src/src/exec.rs:503-556); the auto-mapped /root folder    *)
(* (exec.rs:587-600).  A HashMap is a function on its keys.                *)
(***************************************************************************)
MaxOpts == 2         \* --folder and --artifact options on the command line

OnlyParse == UNCHANGED <<hvars, evars, gvars, mvars, bvars, rvars, wvars, nvars, xvars>>

\* exec.rs:508-511: the number of ':' in the mapping
colons(folder) == Cardinality({k \in 1..Len(folder) : folder[k] = ":"})

\* exec.rs:515-519: folder.split(":"), first and second part
split(folder) ==
    LET c == CHOOSE k \in 1..Len(folder) :
                 folder[k] = ":" /\ \A j \in 1..(k - 1) : folder[j] # ":"
    IN <<SubSeq(folder, 1, c - 1), SubSeq(folder, c + 1, Len(folder))>>

\* exec.rs:507-525: Some(<<dir, sysroot>>), or None when the mapping is refused
dir_sysroot(folder) ==
    IF colons(folder) = 0 THEN Some(<<folder, ROOT>>)
    ELSE IF colons(folder) = 1
            THEN IF starts_with(split(folder)[2], <<"/">>) THEN Some(split(folder))
                                                           ELSE None
            ELSE None

\* the insertion never finds the key
insert_is_some_never(map, key) == FALSE

\* exec.rs:526: map.insert(key, dir).is_some()
insert_is_some(map, key) == key \in DOMAIN map

insert(map, key, dir) ==
    [k \in DOMAIN map \cup {key} |-> IF k = key THEN dir ELSE map[k]]

\* exec.rs:547-556 with parse_folder: one --folder or --artifact option
parse_folder ==
    /\ ppc = "parse" /\ cli # <<>>
    /\ LET flag == Head(cli)[1]
           r    == dir_sysroot(Head(cli)[2])
           map  == IF flag = "-f" THEN config_folders ELSE config_artifacts
       IN IF ~r.some
             THEN /\ ppc' = "usage" /\ perr' = "format"
                  /\ UNCHANGED <<cli, config_folders, config_artifacts, accepted>>
             ELSE LET dir == r.v[1]
                      key == Tail(r.v[2])
                  IN IF insert_is_some(map, key)
                        THEN /\ ppc' = "usage" /\ perr' = "unique"
                             /\ UNCHANGED <<cli, config_folders, config_artifacts, accepted>>
                        ELSE /\ IF flag = "-f"
                                   THEN /\ config_folders' = insert(map, key, dir)
                                        /\ UNCHANGED config_artifacts
                                   ELSE /\ config_artifacts' = insert(map, key, dir)
                                        /\ UNCHANGED config_folders
                             /\ accepted' = Append(accepted, [flag |-> flag, dir |-> dir, sysroot |-> key])
                             /\ cli' = Tail(cli)
                             /\ UNCHANGED <<ppc, perr>>
    /\ OnlyParse

\* exec.rs:576-585: the first token that is no option ends the options
parse_arguments ==
    /\ ppc = "parse" /\ cli = <<>>
    /\ ppc' = "finish"
    /\ UNCHANGED <<cli, config_folders, config_artifacts, accepted, perr>>
    /\ OnlyParse

\* exec.rs:587-600: without a mapping to /root, a command that is a file given
\* with a '/' is mapped to /root
parse_root ==
    /\ ppc = "finish"
    /\ \/ /\ Tail(ROOT) \notin DOMAIN config_folders
          /\ config_folders' = insert(config_folders, Tail(ROOT), <<".", "/", "c">>)
       \/ UNCHANGED config_folders
    /\ ppc' = "done"
    /\ UNCHANGED <<cli, config_artifacts, accepted, perr>>
    /\ OnlyParse

NextParse == parse_folder \/ parse_arguments \/ parse_root

\* Mappings: a folder alone, folder:/mount, a relative mount, two colons.
Mappings == {<<"p">>, <<"q">>,
             <<"p", ":", "/", "r", "o", "o", "t">>,
             <<"p", ":", "/", "d">>, <<"q", ":", "/", "d">>,
             <<"q", ":", "d">>, <<"p", ":", "/", "d", ":", "x">>}

InitParse ==
    /\ ppc = "parse"
    /\ cli \in SeqsUpTo({"-f", "-a"} \X Mappings, MaxOpts)
    /\ config_folders = <<>> /\ config_artifacts = <<>> /\ accepted = <<>>
    /\ perr = "none"
    /\ HostIdle /\ GuestOff /\ MergeIdle /\ BaseIdle /\ ResizeIdle /\ WriterIdle
    /\ MountIdle /\ OptionsIdle

SpecParse == InitParse /\ [][NextParse]_vars

(***************************************************************************)
(* Claims about the folder options                                         *)
(***************************************************************************)
\* C17: after successful parsing no two accepted mappings, --folder and
\* --artifact taken together, have the same source, and no two have the same
\* mount-point name.
C17_SourcesUnique ==
    ppc = "done" =>
        \A a, b \in 1..Len(accepted) :
            a # b => /\ accepted[a].dir # accepted[b].dir
                     /\ accepted[a].sysroot # accepted[b].sysroot

\* C17 (amended): a mapping is refused as not unique exactly when its mount
\* point is that of an earlier mapping of the same option; the mappings accepted
\* for one option have pairwise different mount points, and each set holds
\* exactly the accepted mappings of its option.
C17_Amended ==
    /\ \A a, b \in 1..Len(accepted) :
          (a # b /\ accepted[a].flag = accepted[b].flag) =>
              accepted[a].sysroot # accepted[b].sysroot
    /\ (ppc = "usage" /\ perr = "unique") =>
          \E a \in 1..Len(accepted) :
              /\ accepted[a].flag = Head(cli)[1]
              /\ <<"/">> \o accepted[a].sysroot = dir_sysroot(Head(cli)[2]).v[2]
    /\ ppc = "finish" =>
          /\ Cardinality(DOMAIN config_folders)
                = Cardinality({a \in 1..Len(accepted) : accepted[a].flag = "-f"})
          /\ Cardinality(DOMAIN config_artifacts)
                = Cardinality({a \in 1..Len(accepted) : accepted[a].flag = "-a"})

\* The same host folder is copied in and copied out at the same mount point:
\* both mappings are accepted.
C17_Witness ==
    /\ ppc = "done" /\ Len(accepted) = 2
    /\ accepted[1].flag = "-f" /\ accepted[2].flag = "-a"
    /\ accepted[1].dir = accepted[2].dir
    /\ accepted[1].sysroot = accepted[2].sysroot
    /\ DOMAIN config_artifacts = {accepted[2].sysroot}


(***************************************************************************)
(* Claims about the run image and the temporary workspace (Spec)           *)
(***************************************************************************)

\* C18: the artifact folders are copied out of the image only after a run whose
\* result is success (code 0, the emulator has ended) and only with the
\* mountable backend; a configuration that declares artifacts without the
\* mountable backend is rejected by usage() before the base image is built, the
\* workspace is created or the emulator is launched.
C18_ArtifactsOnlyAfterSuccess ==
    /\ copied_out => code = 0 /\ fuse /\ artifacts /\ emuState = "exited"
    /\ (artifacts /\ ~fuse) =>
          /\ hpc \in {"main", "exited"}
          /\ hpc = "exited" => hcause = "usage" /\ hexit = 1
          /\ tempdir = "none" /\ ~mounted /\ emuState = "off"

\* a successful run with artifacts: they were copied out, the image was
\* unmounted, the workspace closed and the process exited with 0
C18_Witness ==
    /\ copied_out /\ hpc = "exited" /\ hcause = "result" /\ hexit = 0
    /\ tempdir = "closed" /\ ~mounted

\* C19: whenever the workspace has been deleted the run image is not mounted
\* any more, on every path; and when the process has exited after it created
\* the workspace, the workspace has been deleted.
C19_ReleasedBeforeWorkspaceDeleted ==
    /\ tempdir = "closed" => ~mounted
    /\ (hpc = "exited" /\ tempdir # "none") => tempdir = "closed"

\* C20: when an image-construction subprocess (cp of the base image, tar
\* extraction, the archiver, rsync of a folder) exited non-zero, the invocation
\* ends with the error exit, the emulator was never launched and no filesystem
\* is left mounted.
C20_SubprocessFailureAborts ==
    failed_step # "none" =>
        /\ emuState = "off"
        /\ hpc = "exited"
        /\ hcause = "error" /\ hexit = 3
        /\ ~mounted


(***************************************************************************)
(* Claims about the daemon's events and signals (SpecDaemon, Spec)         *)
(***************************************************************************)

C22_CompletionCodes ==
    /\ success_value = 25 /\ failure_value = 26
    /\ success_value # failure_value
    /\ {success_value, failure_value} \subseteq 0..255
    /\ \A k \in 1..Len(ExitWrites) :
          ExitWrites[k][2] \in {success_value, failure_value}
    /\ emuCause = "port" =>
          /\ Len(ExitWrites) = 1
          /\ emuStatus = 2 * ExitWrites[1][2] + 1
          /\ ExitWrites[1][2] = success_value => emuStatus = 51
          /\ ExitWrites[1][2] = failure_value => emuStatus = 53

\* the daemon signalled failure, the emulator ended with 53 and the harness
\* reported the guest's failure
C22_Witness ==
    /\ emuCause = "port" /\ ExitWrites = << <<PORT_EXIT, 26>> >> /\ emuStatus = 53
    /\ hpc = "exited" /\ hcause = "result" /\ hexit = 1


\* C23 as stated: a daemon that ended on the failure path has emitted the error
\* line and then written the halt request to the shutdown port followed by the
\* failure value to the exit port, the two writes of the success path with the
\* failure value.
C23_FailureWritesBothPorts ==
    (dpc = "done" /\ derr # "none") =>
        /\ stderr = <<derr>>
        /\ ports = << <<PORT_SHUTDOWN, HALT_REQUEST>>, <<PORT_EXIT, failure_value>> >>

\* C23 as amended: on the failure path the daemon emits the error line first and
\* then writes the failure value to the exit port, and nothing to the shutdown
\* port; only the success path writes the halt request to the shutdown port,
\* before the success value, and it emits no error line.
C23_Amended ==
    /\ derr # "none" =>
          /\ \A k \in 1..Len(ports) : ports[k] = <<PORT_EXIT, failure_value>>
          /\ ports # <<>> => stderr = <<derr>>
          /\ dpc = "done" => ports = << <<PORT_EXIT, failure_value>> >>
    /\ derr = "none" =>
          /\ stderr = <<>>
          /\ ports \in {<<>>, << <<PORT_SHUTDOWN, HALT_REQUEST>> >>,
                        << <<PORT_SHUTDOWN, HALT_REQUEST>>, <<PORT_EXIT, success_value>> >>}

\* the program could not be spawned: the error line was emitted and the failure
\* value alone was written
C23_Witness ==
    /\ dpc = "done" /\ derr = "Spawn" /\ stderr = <<"Spawn">>
    /\ ports = << <<PORT_EXIT, failure_value>> >>


\* the daemon is handling an event taken from the queue
InEvent == dpc \in {"ev_pty", "ev_timer"}

\* C24: when the handling of an event ends, the daemon is at the non-blocking
\* check of the child (or, after a terminal closure, at the kill that precedes
\* the blocking wait, or in the error arm); a check that finds the child exited
\* returns its status; and a child that exited by itself is always reported
\* with its own exit status, also when the terminal closure was seen and the
\* kill was issued: only a child that was running at the kill is reported as
\* killed.
C24_ExitAndClosureHonored ==
    /\ [][(InEvent /\ ~InEvent') => dpc' \in {"try_wait", "kill", "main_err"}]_vars
    /\ [][(InEvent /\ dpc' = "kill") => (closedSeen' /\ ~closedSeen)]_vars
    /\ [][(dpc = "try_wait" /\ child = "exited" /\ dpc' \notin {"try_wait", "main_err"})
            => (dpc' = "status" /\ status' = childStatus)]_vars
    /\ [](status # NoStatus => status = childStatus)
    /\ [](childStatus = Signaled(SIGKILL) => (killIssued /\ closedSeen))

\* the child exited with status 1 and the daemon saw the terminal closure: it
\* issued the kill, and still reported the exit status 1
C24_Witness ==
    /\ closedSeen /\ killIssued /\ observedBy = "wait"
    /\ status = Exited(1) /\ derr = "Exit" /\ dpc = "done"


\* C25: once the child has exited, a daemon that gets only terminal and timer
\* events eventually ends having written one completion value, also when the
\* terminal never becomes readable and never reports closure (a descendant of
\* the child holds it open); the handling of a timer event that does not fail
\* only schedules the timer again and goes back to the loop: the child, the
\* terminal, the ports and the observed status are as before.
C25_TimerKeepsLoopAlive ==
    /\ ([]~evOther) =>
          ((child \in {"exited", "reaped"}) ~> (dpc = "done" /\ Len(ExitWrites) = 1))
    /\ [][(dpc = "ev_timer" /\ dpc' \notin {"ev_timer", "main_err"}) =>
             /\ dpc' = "try_wait" /\ timerArmed'
             /\ UNCHANGED <<cvars, iovars, ports, status, killIssued, closedSeen>>]_vars

\* the daemon handles a timer event while the child has exited, the terminal is
\* still held open and nothing was ever written to it
C25_Witness ==
    /\ dpc = "ev_timer" /\ child = "exited" /\ slaveOpen
    /\ ~evPty /\ ~closedSeen /\ written = 0 /\ consumed = <<>>


\* C26: when the daemon reads the terminal master while it holds no byte and
\* its slave side is open, and the read does not fail, the handler returns
\* without reporting closure or error: no closure is recorded, the child and
\* the observed status are untouched, no kill is issued, and the daemon goes
\* on to the timer (first call) or to the loop head; from the loop head, with
\* the child running, it waits for the next event.
C26_WouldBlockIsNotClosure ==
    /\ [][(/\ dpc \in {"init_pty", "ev_pty"} /\ dpc' # dpc
           /\ Len(ptyBuf) = 0 /\ slaveOpen /\ derr' = derr)
          => /\ dpc' = (IF dpc = "init_pty" THEN "init_timer" ELSE "try_wait")
             /\ ~closedSeen' /\ ~killIssued'
             /\ UNCHANGED <<cvars, iovars, status, observedBy, ports>>]_vars
    /\ [][(dpc = "try_wait" /\ child = "running" /\ dpc' # dpc /\ derr' = derr)
          => (dpc' = "next_event" /\ UNCHANGED <<cvars, status, killIssued>>)]_vars

\* the daemon read the child's output, drained the terminal until it would
\* block, and waits for the next event with the child running
C26_Witness ==
    /\ dpc = "next_event" /\ Len(consumed) = MaxOut /\ ptyBuf = <<>>
    /\ child = "running" /\ slaveOpen /\ ~closedSeen /\ ~killIssued
    /\ status = NoStatus


(***************************************************************************)
(* Claims about the termination of the argument merger (SpecMergeFair)     *)
(***************************************************************************)

C28_RecordNextToImage ==
    /\ bpc = "idle" =>
          \A f \in BOOLEAN :
             is_file(base_file(f)) => files[base_toml] = files[base_file(f)]
    /\ (bpc = "idle" /\ last.ok
           /\ StaleAtCall(prev.files, last.fuse, last.manifest)) =>
          (last.cleared /\ last.built)


\* C29: whenever base() returns Ok, the image or archive at the returned path
\* was produced from the manifest of that call, whatever call came before, for
\* another manifest or the other backend.  Stated for the first two calls
\* against a cache directory when neither of them failed.
C29_ReturnedImageFromManifest ==
    (bpc = "idle" /\ last.ok /\ (calls = 1 \/ (calls = 2 /\ prev.ok))) =>
        last.files[last.path] = last.manifest


(***************************************************************************)
(* Claims about two concurrent invocations (SpecBase2)                     *)
(***************************************************************************)
\* positions of base() at which the invocation has its build directory and
\* its .partial file in use
Building == {"install", "shrink", "rename"}

\* C30: with two invocations running base() against one cache directory, no
\* incomplete image is ever at a final path and no call returns one; and while
\* one invocation is between the start of its installation and its rename,
\* the steps of the other leave its .partial file and the build directory as
\* they are.
C30_NoInterference ==
    /\ [](\A f \in BOOLEAN : files[base_file(f)] # "junk")
    /\ []((bpc = "idle" /\ last.ok) => last.files[last.path] # "junk")
    /\ [][(other.bpc \in Building /\ other' = other) =>
             /\ files'[base_partial(other.base_fuse)] = files[base_partial(other.base_fuse)]
             /\ files'[base_dir] = files[base_dir]]_vars


\* C31: when resize computes a new size equal to the declared size it returns
\* at once: the step leaves the allocator, the header size, the log on disk and
\* the file length as they are and goes to no commit; and a shrink that ended
\* so leaves the image on disk as it was when the operation started.
C31_EqualSizesNoOp ==
    /\ []((rpc = "idle" /\ rop = "shrink" /\ rresult = "ok" /\ new_size = old_size) =>
             Snapshot = pre)
    /\ [][(rpc = "resize" /\ rpc' # "resize" /\ rresult' # "err" /\ new_size' = old_size') =>
             /\ rpc' = "idle" /\ rresult' = "ok"
             /\ UNCHANGED <<allocator, header_size, alloc_log, disk_len>>]_vars

\* A shrink of an image without a free block found equal sizes and returned Ok.
C31_Witness ==
    /\ rpc = "idle" /\ rop = "shrink" /\ rresult = "ok"
    /\ new_size = old_size /\ old_size = header_size /\ header_size > 0
    /\ Replay(alloc_log, {}) = {}


\* C32: in shrink and in expand alike, whenever the length of the backing file
\* is changed, the header of the running operation already holds the new
\* declared size and the transaction has been committed with squash.
C32_HeaderBeforeFile ==
    [][disk_len' # disk_len =>
          /\ header_size # pre.header_size /\ header_size = new_size
          /\ alloc_log \in Squashed(allocator)]_vars

\* C32 as amended: a shrink updates the declared size and commits with squash
\* before it truncates the file to match; an expand extends the file first,
\* while the header is as it was, and then sets the declared size to match the
\* extended file and commits with squash.
C32_Amended ==
    [][/\ (disk_len' # disk_len /\ rop = "shrink") =>
             /\ header_size # pre.header_size /\ header_size = new_size
             /\ alloc_log \in Squashed(allocator)
             /\ disk_len' = disk_len - (pre.header_size - header_size)
       /\ (disk_len' # disk_len /\ rop = "expand") =>
             /\ header_size = pre.header_size /\ alloc_log = pre.alloc_log
             /\ disk_len' > disk_len
       /\ (header_size' # header_size /\ rop = "expand") =>
             /\ disk_len > pre.disk_len /\ disk_len' = disk_len
             /\ header_size' = disk_len - fs_block * BLOCK_SIZE
             /\ alloc_log' \in Squashed(allocator)]_vars

\* An expand that grew the file and a shrink that truncated it have both
\* returned Ok.
C32_Witness ==
    /\ rpc = "idle" /\ trip = "shrunk" /\ rresult = "ok"
    /\ pre.disk_len > before
    /\ disk_len < pre.disk_len /\ header_size < pre.header_size


\* C33: in every state, between any two steps of an expand or a shrink and
\* after one that failed or panicked, every block that holds data and every
\* block the log on disk accounts for lies inside the declared size, and the
\* declared size is at most the file length less the blocks in front of the
\* filesystem.
C33_SizesOrdered ==
    /\ \A b \in live \cup Replay(alloc_log, {}) : (b + 1) * BLOCK_SIZE <= header_size
    /\ header_size <= disk_len - fs_block * BLOCK_SIZE

\* An expand grew the file and failed before the commit: the file is longer
\* than the declared size needs, with data in the last declared block.
C33_Witness ==
    /\ rpc = "idle" /\ rop = "expand" /\ rresult = "err"
    /\ disk_len > pre.disk_len /\ header_size = pre.header_size
    /\ header_size < disk_len - fs_block * BLOCK_SIZE
    /\ (header_size \div BLOCK_SIZE) - 1 \in live


\* C34: after expand_disk has returned Ok the declared size is the file length
\* less the blocks in front of the filesystem, whether the file was grown or
\* not; and when it was grown, the blocks between the old and the new declared
\* size are free in the log on disk.
C34_ExpandReachesMaximalSize ==
    (rpc = "idle" /\ rop = "expand" /\ rresult = "ok") =>
        /\ header_size = disk_len - fs_block * BLOCK_SIZE
        /\ disk_len > pre.disk_len =>
              (pre.header_size \div BLOCK_SIZE)..(header_size \div BLOCK_SIZE - 1)
                  \subseteq Replay(alloc_log, {})

\* the part of C34 about an expand that grew the file
C34_WhenGrown ==
    (rpc = "idle" /\ rop = "expand" /\ rresult = "ok" /\ disk_len > pre.disk_len) =>
        /\ header_size = disk_len - fs_block * BLOCK_SIZE
        /\ (pre.header_size \div BLOCK_SIZE)..(header_size \div BLOCK_SIZE - 1)
               \subseteq Replay(alloc_log, {})


\* C35: a shrink that returns Ok leaves as declared size the start of an entry
\* of the log that has a positive count and the greatest end of all such
\* entries, and truncates the file by the difference; the free blocks below
\* that start stay inside the image, free as before; when the log has no entry
\* with a positive count the image is left as it was.
C35_ShrinkToLastFree ==
    (rpc = "idle" /\ rop = "shrink" /\ rresult = "ok") =>
        LET lg  == pre.alloc_log
            pos == {k \in DOMAIN lg : lg[k].count > 0}
        IN IF pos = {} THEN Snapshot = pre
           ELSE \E k \in pos :
                   /\ \A l \in pos : lg[l].index + lg[l].count <= lg[k].index + lg[k].count
                   /\ header_size = lg[k].index * BLOCK_SIZE
                   /\ disk_len = pre.disk_len - (pre.header_size - header_size)
                   /\ Replay(alloc_log, {}) = {b \in Replay(lg, {}) : b < lg[k].index}

\* A shrink returned Ok and left a free extent inside the image, next to the
\* blocks it cut off.
C35_Witness ==
    /\ rpc = "idle" /\ rop = "shrink" /\ rresult = "ok"
    /\ header_size < pre.header_size
    /\ (header_size \div BLOCK_SIZE) - 1 \in Replay(alloc_log, {})


(***************************************************************************)
(* Claims about the order of the steps of a run (Spec)                     *)
(***************************************************************************)
\* C36: the emulator is started only when the configuration file of the
\* command has been written into the image, every folder has been copied in
\* and the image is not mounted on the host; and the image is never mounted
\* while the emulator is running.
C36_LaunchAfterImageComplete ==
    /\ [](emuState = "running" => ~mounted /\ tempdir = "open")
    /\ [][(emuState # "running" /\ emuState' = "running") =>
             /\ hpc = "launch" /\ ~mounted
             /\ config = lines(write_redoxerd_config(arguments, NoFolder))
             /\ copied_in]_vars

\* The emulator is running on an image of the mountable backend into which
\* folders were copied.
C36_Witness ==
    /\ emuState = "running" /\ hpc = "status"
    /\ fuse /\ copy_in /\ copied_in /\ ~mounted /\ config # <<>>


(***************************************************************************)
(* Mounting an image: RedoxFs::mount (src/src/redoxfs.rs) and the thread   *)
(* it spawns.  The thread runs redoxfs::mount, which mounts the directory, *)
(* serves it until it is unmounted or the session fails, and returns with  *)
(* the directory unmounted; the thread then sends the result and ends.  A  *)
(* panic in the thread drops the sender without a message.                 *)
(***************************************************************************)
MaxPolls == 3        \* sleeps of the loop that are told apart

OnlyMount == UNCHANGED <<hvars, evars, gvars, mvars, bvars, rvars, wvars, pvars, xvars>>

\* mount() returns
mount_return(res) == mnt_pc' = "returned" /\ mnt_res' = res

\* redoxfs.rs:26: s.mount()
mount_call ==
    /\ mnt_pc = "idle"
    /\ mnt_pc' = "mounted"
    /\ UNCHANGED <<mnt_res, worker, wres, chan, dir_mounted, polls>>
    /\ OnlyMount

\* redoxfs.rs:31-33: if self.mounted()? { return Err(..) }
mount_mounted ==
    /\ mnt_pc = "mounted"
    /\ \/ dir_mounted /\ mount_return("AlreadyMounted")
       \/ ~dir_mounted /\ mnt_pc' = "open" /\ UNCHANGED mnt_res
       \/ \* the table of mounts cannot be read
          mount_return("MountTable")
    /\ UNCHANGED <<worker, wres, chan, dir_mounted, polls>>
    /\ OnlyMount

\* redoxfs.rs:35-42: open the image and spawn the thread
mount_open ==
    /\ mnt_pc = "open"
    /\ \/ /\ worker' = "starting" /\ mnt_pc' = "while" /\ UNCHANGED mnt_res
       \/ \* DiskFile::open or FileSystem::open failed
          mount_return("OpenFailed") /\ UNCHANGED worker
    /\ UNCHANGED <<wres, chan, dir_mounted, polls>>
    /\ OnlyMount

\* redoxfs.rs:44 and 68: while !self.mounted()? { .. } Ok(())
mount_while ==
    /\ mnt_pc = "while"
    /\ \/ dir_mounted /\ mount_return("Ok")
       \/ ~dir_mounted /\ mnt_pc' = "try_recv" /\ UNCHANGED mnt_res
       \/ mount_return("MountTable")
    /\ UNCHANGED <<worker, wres, chan, dir_mounted, polls>>
    /\ OnlyMount

\* the result of the thread is never seen
try_recv_always_Empty(c, w) == "Empty"

\* rx.try_recv(): the message, Empty while the sender lives, else Disconnected
try_recv(c, w) ==
    IF c # "empty" THEN c ELSE IF w = "gone" THEN "Disconnected" ELSE "Empty"

\* redoxfs.rs:45-64: match rx.try_recv()
mount_try_recv ==
    /\ mnt_pc = "try_recv"
    /\ LET res == try_recv(chan, worker) IN
       /\ chan' = "empty"
       /\ CASE res = "Ok"           -> mount_return("ExitedEarly")
            [] res = "Err"          -> mount_return("WorkerErr")
            [] res = "Disconnected" -> mount_return("NoResult")
            [] OTHER                -> mnt_pc' = "sleep" /\ UNCHANGED mnt_res
    /\ UNCHANGED <<worker, wres, dir_mounted, polls>>
    /\ OnlyMount

\* redoxfs.rs:65: thread::sleep(1 ms), then the loop condition again
mount_sleep ==
    /\ mnt_pc = "sleep"
    /\ mnt_pc' = "while"
    /\ polls' = IF polls < MaxPolls THEN polls + 1 ELSE polls
    /\ UNCHANGED <<mnt_res, worker, wres, chan, dir_mounted>>
    /\ OnlyMount

\* redoxfs.rs:41: redoxfs::mount mounts the directory and serves it
worker_mount ==
    /\ worker = "starting"
    /\ worker' = "serving" /\ dir_mounted' = TRUE
    /\ UNCHANGED <<mnt_pc, mnt_res, wres, chan, polls>>
    /\ OnlyMount

\* redoxfs.rs:41: redoxfs::mount returns: Err when it could not mount, Ok or
\* Err when the directory it served was unmounted or the session failed
worker_return ==
    /\ \/ worker = "starting" /\ wres' = "Err"
       \/ worker = "serving" /\ wres' \in {"Ok", "Err"}
    /\ worker' = "returned" /\ dir_mounted' = FALSE
    /\ UNCHANGED <<mnt_pc, mnt_res, chan, polls>>
    /\ OnlyMount

\* redoxfs.rs:41-42: tx.send(result); the thread ends and drops the sender
worker_send ==
    /\ worker = "returned"
    /\ chan' = wres /\ worker' = "gone"
    /\ UNCHANGED <<mnt_pc, mnt_res, wres, dir_mounted, polls>>
    /\ OnlyMount

\* redoxfs.rs:40-42: redoxfs::mount panics; the thread unwinds without sending
worker_panic ==
    /\ worker \in {"starting", "serving"}
    /\ worker' = "gone" /\ dir_mounted' = FALSE
    /\ UNCHANGED <<mnt_pc, mnt_res, wres, chan, polls>>
    /\ OnlyMount

NextMount ==
    \/ mount_call \/ mount_mounted \/ mount_open \/ mount_while
    \/ mount_try_recv \/ mount_sleep
    \/ worker_mount \/ worker_return \/ worker_send \/ worker_panic

\* RedoxFs::new is about to call mount on a directory that is mounted already
\* or is not.
InitMount ==
    /\ mnt_pc = "idle" /\ mnt_res = "none" /\ worker = "none" /\ wres = "none"
    /\ chan = "empty" /\ dir_mounted \in BOOLEAN /\ polls = 0
    /\ HostIdle /\ GuestOff /\ MergeIdle /\ BaseIdle
    /\ ResizeIdle /\ WriterIdle /\ ParseIdle /\ OptionsIdle

SpecMount == InitMount /\ [][NextMount]_vars

\* C37: mount() returns Ok only from the loop condition, with the directory
\* mounted; when the thread has sent a result or has ended without one and the
\* directory was not seen mounted, the next try_recv makes mount() return the
\* error for it; and an iteration that sees neither the mount nor a result
\* sleeps and tests the condition again, however often it has done so.
C37_MountPoll ==
    [][/\ (mnt_res = "none" /\ mnt_res' = "Ok") => (mnt_pc = "while" /\ dir_mounted)
       /\ (mnt_pc = "try_recv" /\ mnt_pc' # mnt_pc /\ (chan # "empty" \/ worker = "gone")) =>
             /\ mnt_pc' = "returned"
             /\ mnt_res' = (IF chan = "Ok" THEN "ExitedEarly"
                            ELSE IF chan = "Err" THEN "WorkerErr" ELSE "NoResult")
       /\ (mnt_pc = "try_recv" /\ mnt_pc' # mnt_pc /\ chan = "empty" /\ worker # "gone") =>
             (mnt_pc' = "sleep" /\ mnt_res' = "none")
       /\ (mnt_pc = "sleep" /\ mnt_pc' # mnt_pc) => (mnt_pc' = "while" /\ mnt_res' = "none")
       /\ (mnt_pc = "while" /\ mnt_pc' # mnt_pc /\ ~dir_mounted /\ mnt_res' # "MountTable") =>
             (mnt_pc' = "try_recv" /\ mnt_res' = "none")]_vars

\* The loop has slept MaxPolls times with the thread still starting, and is
\* about to test the condition again.
C37_Witness ==
    /\ mnt_pc = "while" /\ polls = MaxPolls /\ worker = "starting"
    /\ ~dir_mounted /\ chan = "empty" /\ mnt_res = "none"


(***************************************************************************)
(* Claims about the child's output at the end of a run (SpecDaemon)        *)
(***************************************************************************)
\* the daemon has the child's status and has written the completion value
Completed == dpc = "done" /\ status # NoStatus /\ derr \in {"none", "Exit"}

\* C38: when the daemon has written the completion value for a child whose
\* status it obtained, every byte the child wrote to its terminal is on the
\* debug console port, in order.
C38_OutputBeforeCompletion ==
    Completed => debugcon = [k \in 1..written |-> k]

\* when the daemon has written the completion value, no byte the child wrote
\* is left unread in the terminal
C38_Drained == Completed => ptyBuf = <<>>


(***************************************************************************)
(* Claims about the rewriting of arguments (SpecWriter)                    *)
(***************************************************************************)
\* C39: every argument is written either as given or, when it is a path under
\* the folder mapped to /root (it begins with the folder's absolute path and
\* "/"), with that leading path replaced by /root and the rest as given; an
\* argument that is not under the folder, such as one under a sibling folder
\* whose name begins with the folder's name, is written as given.
C39_OnlyLeadingPrefix ==
    wpc = "written" =>
        redoxerd_config = TextOf([k \in 1..Len(w_arguments) |-> UnderRoot(w_arguments[k])])


(***************************************************************************)
(* The command line of `redoxer exec`: the loop over the tokens in         *)
(* RedoxerExecConfig::new (src/src/exec.rs:545-585) and the steps after it *)
(* (exec.rs:587-606).  A token is a sequence of characters.  Each option   *)
(* has a short and a long spelling matched by one arm; the short one is    *)
(* among the tokens.                                                       *)
(***************************************************************************)
MaxTokens == 4       \* tokens after `redoxer exec`

OnlyOptions == UNCHANGED <<hvars, evars, gvars, mvars, bvars, rvars, wvars, pvars, nvars>>

Range(s) == {s[k] : k \in DOMAIN s}
Opt(c) == <<"-", c>>
DashDash == <<"-", "-">>
\* the options, a separator, a command given with a '/', a word and a mapping
Tokens == {Opt("f"), Opt("a"), Opt("g"), Opt("o"), Opt("h"), Opt("i"), DashDash,
           <<".", "/", "c">>, <<"x">>, <<"p", ":", "/", "d">>}

\* an option is matched wherever it stands
is_option_anywhere(arg, opt, m) == arg = opt

\* exec.rs:548-579: the arm (opt, true) matches the token while matching
is_option(arg, opt, m) == m /\ arg = opt

\* exec.rs:503-532: parse_folder on a map; None when it bails
parse_folder_into(map, folder) ==
    LET r == dir_sysroot(folder) IN
    IF ~r.some THEN None
    ELSE IF insert_is_some(map, Tail(r.v[2])) THEN None
    ELSE Some(insert(map, Tail(r.v[2]), r.v[1]))

\* new() returns Err, or panics
new_bail == xpc' = "Err" /\ UNCHANGED <<x_args, matching, new_config>>
new_panic == xpc' = "panic" /\ UNCHANGED <<x_args, matching, new_config>>

\* exec.rs:547-585: one iteration of while let Some(arg) = args.next()
new_match ==
    /\ xpc = "loop" /\ x_args # <<>>
    /\ LET arg  == Head(x_args)
           rest == Tail(x_args)
           with(f, v) == [new_config EXCEPT ![f] = v]
       IN CASE is_option(arg, Opt("f"), matching) \/ is_option(arg, Opt("a"), matching) ->
                 LET f == IF arg = Opt("f") THEN "folders" ELSE "artifacts"
                     r == IF rest = <<>> THEN None
                          ELSE parse_folder_into(new_config[f], Head(rest))
                 IN IF r.some
                       THEN /\ new_config' = with(f, r.v) /\ x_args' = Tail(rest)
                            /\ UNCHANGED <<xpc, matching>>
                       ELSE new_bail
            [] is_option(arg, Opt("g"), matching) ->
                 /\ new_config' = [new_config EXCEPT !.config_name = <<"gui">>,
                                                     !.config_toml = "GUI_TOML"]
                 /\ x_args' = rest /\ UNCHANGED <<xpc, matching>>
            [] is_option(arg, Opt("i"), matching) ->
                 IF rest = <<>> THEN new_bail
                 ELSE \/ /\ new_config' = [new_config EXCEPT !.config_name = Head(rest),
                                                             !.config_toml = "file"]
                         /\ x_args' = Tail(rest) /\ UNCHANGED <<xpc, matching>>
                      \/ \* the file is named base or gui
                         new_bail
                      \/ \* the path has no file name or cannot be read
                         new_panic
            [] is_option(arg, Opt("h"), matching) -> new_bail
            [] is_option(arg, Opt("o"), matching) ->
                 IF rest = <<>> THEN new_bail
                 ELSE /\ new_config' = with("output", Some(Head(rest)))
                      /\ x_args' = Tail(rest) /\ UNCHANGED <<xpc, matching>>
            [] is_option(arg, DashDash, matching) ->
                 /\ matching' = FALSE /\ x_args' = rest
                 /\ UNCHANGED <<xpc, new_config>>
            [] OTHER ->
                 /\ matching' = FALSE
                 /\ new_config' = with("arguments", Append(new_config.arguments, arg))
                 /\ x_args' = rest /\ UNCHANGED xpc
    /\ UNCHANGED x_line
    /\ OnlyOptions

\* exec.rs:547: args.next() is None
new_loop_end ==
    /\ xpc = "loop" /\ x_args = <<>>
    /\ xpc' = "finish"
    /\ UNCHANGED <<x_line, x_args, matching, new_config>>
    /\ OnlyOptions

\* exec.rs:587-606: a command that is a file given with a '/' becomes the
\* folder of /root when none was given; artifacts need the mountable backend
new_finish ==
    /\ xpc = "finish"
    /\ \/ /\ Tail(ROOT) \notin DOMAIN new_config.folders
          /\ new_config.arguments # <<>>
          /\ "/" \in Range(Head(new_config.arguments))
          /\ new_config' = [new_config EXCEPT
                  !.folders = insert(new_config.folders, Tail(ROOT),
                                     Head(new_config.arguments))]
       \/ UNCHANGED new_config
    /\ \/ xpc' = "Ok"
       \/ new_config.artifacts # <<>> /\ xpc' = "Err"
    /\ UNCHANGED <<x_line, x_args, matching>>
    /\ OnlyOptions

NextOptions == new_match \/ new_loop_end \/ new_finish

InitOptions ==
    /\ xpc = "loop" /\ x_line \in SeqsUpTo(Tokens, MaxTokens) /\ x_args = x_line
    /\ matching = TRUE /\ new_config = DefaultConfig
    /\ HostIdle /\ GuestOff /\ MergeIdle /\ BaseIdle
    /\ ResizeIdle /\ WriterIdle /\ ParseIdle /\ MountIdle

SpecOptions == InitOptions /\ [][NextOptions]_vars

(***************************************************************************)
(* Claims about the command line (SpecOptions)                             *)
(***************************************************************************)
\* the options that take the next token as their value
TakesValue == {Opt("f"), Opt("a"), Opt("o"), Opt("i")}

\* the position of the first token of the line that is `--` or is no option,
\* the values of options skipped; past the end when there is none (with -h
\* among the options new() returns Err before the loop ends)
RECURSIVE StopAt(_, _)
StopAt(l, k) ==
    IF k > Len(l) THEN k
    ELSE IF l[k] \in TakesValue THEN StopAt(l, k + 2)
    ELSE IF l[k] = Opt("g") THEN StopAt(l, k + 1)
    ELSE k

\* the tokens after the first `--`, or from the first token that is no option
Command(l) ==
    LET k == StopAt(l, 1) IN
    IF k > Len(l) THEN <<>>
    ELSE IF l[k] = DashDash THEN SubSeq(l, k + 1, Len(l)) ELSE SubSeq(l, k, Len(l))

====





